---- MODULE Spec2Model ----
(***************************************************************************)
(* Model of modules/upload_manager.py: one UploadManager.upload_all call,  *)
(* the three platform clients it drives and the requests they send.        *)
(* Every network request, file access and sleep is one step; the server's  *)
(* answer to a request is drawn from a small set of responses.             *)
(* Spec is one upload_all call, SpecRetry one _retry_upload call and       *)
(* SpecVerify one verify_facebook_token call, SpecMain the token check of   *)
(* main.py's pipeline, SpecQuestion the validation of a question and       *)
(* QuestionSelector.get_description, SpecNotify one alert of the           *)
(* TelegramNotifier, SpecBank the calls on a QuestionSelector that read    *)
(* and change the used set; the variables of the calls a specification     *)
(* does not run stay at their parked values.                               *)
(***************************************************************************)
EXTENDS Naturals, Integers, Sequences, FiniteSets, TLC

VARIABLES
    cfg,         \* self.fb_config / self.yt_config as read by upload_all
    videoExists, \* whether video_path names a readable file
    description, \* the description argument of upload_all
    pc,          \* position of the upload_all call
    fullDesc,    \* full_description (upload_all local)
    ig_user_id,  \* ig_user_id (upload_all local), None until discovered
    results,     \* the results dict of upload_all
    order,       \* insertion order of the keys of results
    writes,      \* number of assignments results[p] = ... per platform
    calls,       \* platform clients invoked so far, in invocation order
    log,         \* requests, sleeps and file writes since the previous
                 \* client returned, in order (one client attempt)
    got,         \* the last response to each kind of request in log
    sent,        \* kinds of request sent since upload_all was called
    failed,      \* kinds of request that were answered by a failure
    sess,        \* locals of the running client (ids, urls, poll counter)
    store,       \* the YouTube credential file (token_file)
    rpc,         \* position of the _retry_upload call
    attempt,     \* attempt, the loop variable of _retry_upload
    result,      \* result (local of _retry_upload), what it returns
    attempts,    \* what each call of upload_func returned, in order
    sleeps,      \* the arguments of time.sleep in _retry_upload, in order
    vpc,         \* position of the verify_facebook_token call
    now,         \* datetime.now() of that call, in seconds since the epoch
    data,        \* the answer to the debug_token request
    ret,         \* what verify_facebook_token returned
    mpc,         \* position of main() in main.py
    alerts,      \* the telegram_notifier.send_alert calls of main(), in order
    qpc,         \* position of the QuestionSelector calls
    question,    \* a question object of questions.json
    qdesc,       \* what get_description returned
    npc,         \* position of the TelegramNotifier call
    ncall,       \* the method called: send_alert or send_error_alert
    nenabled,    \* self.enabled of the notifier
    nattempt,    \* attempt, the loop variable of _send_message
    nlog,        \* the posts, log records and sleeps of the call, in order
    nret,        \* what the call returned
    questions,   \* self.questions, the question bank in file order
    used_ids,    \* self.used_ids
    used_log,    \* the file used_log_file: whether it exists, its lines
    marked,      \* ids mark_as_used has added to this object since reset
    qret         \* the last QuestionSelector call and what it returned

uvars == <<cfg, videoExists, description, pc, fullDesc, ig_user_id, results,
           order, writes, calls, log, got, sent, failed, sess, store>>

rvars == <<rpc, attempt, result, attempts, sleeps>>

tvars == <<vpc, now, data, ret>>

mvars == <<mpc, alerts>>

qvars == <<qpc, question, qdesc>>

nvars == <<npc, ncall, nenabled, nattempt, nlog, nret>>

bvars == <<questions, used_ids, used_log, marked, qret>>

vars == <<uvars, rvars, tvars, mvars, qvars, nvars, bvars>>

----------------------------------------------------------------------------
(* Python values *)

\* None, as returned by dict.get for an absent key
None == "<None>"

\* truth value of an optional string: None and "" are falsy
Truthy(v) == v # None /\ v # ""

\* str(v) as an f-string renders it
PyStr(v) == IF v = None THEN "None" ELSE v

Platforms == {"facebook", "instagram", "youtube"}

\* the return values of verify_facebook_token: None, a number of days, and
\* an exception leaving the method
RetNone == [kind |-> "None", days |-> 0]
RetDays(n) == [kind |-> "days", days |-> n]
RetRaised == [kind |-> "raised", days |-> 0]

\* no debug_token answer received
NoData == [kind |-> "none", expires_at |-> 0]

\* no verify_facebook_token call is running
VerifyParked ==
    /\ vpc = "off"
    /\ now = 0
    /\ data = NoData
    /\ ret = RetNone

\* no question object
NoQuestion ==
    [explanation |-> "", answer |-> "", options |-> <<>>, hashtags |-> <<>>]

\* no QuestionSelector call is running
SelectorParked ==
    /\ qpc = "off"
    /\ question = NoQuestion
    /\ qdesc = None

\* a used-questions log: exists is Path.exists(), lines its lines
LogFile(exists, lines) == [exists |-> exists, lines |-> lines]

\* what a QuestionSelector call returned: raised, or the place in the bank
\* of the question returned (0 for None), or the numbers of get_stats
Returned(call, raised, id, index, stats) ==
    [call |-> call, raised |-> raised, id |-> id, index |-> index,
     stats |-> stats]

NoStats == [total |-> 0, used |-> 0, remaining |-> 0, remaining_sum |-> 0]

NoCall == Returned("none", FALSE, 0, 0, NoStats)

\* no QuestionSelector object
BankParked ==
    /\ questions = <<>>
    /\ used_ids = {}
    /\ used_log = LogFile(FALSE, <<>>)
    /\ marked = {}
    /\ qret = NoCall

\* no TelegramNotifier call is running
NotifierParked ==
    /\ npc = "off"
    /\ ncall = None
    /\ nenabled = FALSE
    /\ nattempt = 0
    /\ nlog = <<>>
    /\ nret = None

\* main() is not running
MainParked ==
    /\ mpc = "off"
    /\ alerts = <<>>

\* no _retry_upload call is running
RetryParked ==
    /\ rpc = "off"
    /\ attempt = 0
    /\ result = None
    /\ attempts = <<>>
    /\ sleeps = <<>>

\* configured identifiers
PageId == "page1"
AccessToken == "EAATOKEN"
GraphBase == "https://graph.facebook.com/v18.0/"

----------------------------------------------------------------------------
(* Responses of the network *)

\* A response: status "raise" is an exception raised by requests itself
\* (connection error, timeout); otherwise the HTTP status class.  json says
\* whether response.json() parses; a and b are the two fields the caller
\* reads with .get (None when absent).
Resp(status, json, a, b) == [status |-> status, json |-> json, a |-> a, b |-> b]

NoResp == Resp("none", FALSE, None, None)

Ok(r) == r.status = "2xx"

\* text of the exception requests raises for a failed connection
ConnErrText(url) == "ConnectionError: Max retries exceeded with url: " \o url

\* text of the HTTPError raised by raise_for_status
HttpErrText(r, url) ==
    (IF r.status = "4xx" THEN "400 Client Error" ELSE "500 Server Error")
        \o " for url: " \o url

JsonErrText == "JSONDecodeError: Expecting value"

\* the body of the response is not parsed
PostJsonError_IgnoreBody(r, url) ==
    IF r.status = "raise" THEN ConnErrText(url)
    ELSE IF ~Ok(r) THEN HttpErrText(r, url)
    ELSE None

\* the exception a POST followed by raise_for_status() and .json() ends in,
\* or None when all three succeed
PostJsonError(r, url) ==
    IF r.status = "raise" THEN ConnErrText(url)
    ELSE IF ~Ok(r) THEN HttpErrText(r, url)
    ELSE IF ~r.json THEN JsonErrText
    ELSE None

FailureStatuses == {"raise", "4xx", "5xx"}

FailedResponses == {Resp(s, FALSE, None, None) : s \in FailureStatuses}

VideoIds == {"123", "456"}
UploadUrl == "https://up/123"

FbStartResponses ==
    FailedResponses
    \cup {Resp("2xx", FALSE, None, None)}
    \cup {Resp("2xx", TRUE, v, UploadUrl) : v \in VideoIds \cup {None, ""}}
    \cup {Resp("2xx", TRUE, "123", None)}

TransferResponses == FailedResponses \cup {Resp("2xx", TRUE, None, None)}

FbFinishResponses ==
    FailedResponses
    \cup {Resp("2xx", FALSE, None, None), Resp("2xx", TRUE, "true", None)}

----------------------------------------------------------------------------
(* Results *)

Failure(e) == [success |-> FALSE, error |-> e]

FbSuccess(video_id, finish_result) ==
    [success |-> TRUE,
     video_id |-> video_id,
     url |-> "https://www.facebook.com/reel/" \o PyStr(video_id),
     response |-> finish_result]

\* d[k] = v on a Python dict
DictSet(d, k, v) == [q \in DOMAIN d \cup {k} |-> IF q = k THEN v ELSE d[q]]

\* insertion order of the keys after d[k] = v
OrderSet(o, d, k) == IF k \in DOMAIN d THEN o ELSE Append(o, k)

\* one entry of the log: a request (or sleep, or file write), the id, url
\* or duration it is about and the description text it carries, if any
Event(op, arg, desc) == [op |-> op, arg |-> arg, desc |-> desc]

Ops == {"fb_start", "fb_transfer", "fb_finish", "discover", "ig_create",
        "ig_transfer", "ig_publish", "ig_poll", "ig_permalink",
        "yt_refresh", "yt_flow", "yt_chunk"}

\* nothing received yet
NoGot == [o \in Ops |-> NoResp]

\* the client's locals before its first statement
NoSess == [video_id |-> None, upload_url |-> None,
           media_id |-> None, polls |-> 0, creds |-> None, chunks |-> 0]

----------------------------------------------------------------------------
(* upload_all *)

Configs ==
    [fbEnabled : BOOLEAN, ytEnabled : BOOLEAN, fbKeys : BOOLEAN]

Descriptions == {"Solve <this>"}

CtaText == "\n\nSubscribe!"
MusicLicense == "\n\nMusic: CC BY 3.0"

StoredCredentials == {"absent", "valid", "expired_rt", "expired_nort", "corrupt"}

Init ==
    /\ cfg \in Configs
    /\ videoExists \in BOOLEAN
    /\ description \in Descriptions
    /\ pc = "idle"
    /\ fullDesc = None
    /\ ig_user_id = None
    /\ results = <<>>
    /\ order = <<>>
    /\ writes = [p \in Platforms |-> 0]
    /\ calls = <<>>
    /\ log = <<>>
    /\ got = NoGot
    /\ sent = {}
    /\ failed = {}
    /\ sess = NoSess
    /\ store \in StoredCredentials
    /\ RetryParked
    /\ VerifyParked
    /\ MainParked
    /\ SelectorParked
    /\ NotifierParked
    /\ BankParked

\* the answer r to op is a failure of that step: an exception, a non-2xx
\* status, a body that does not parse, or a body without the field that
\* the step is sent for (session fields, the id of the uploaded video)
StepFailed(op, r) ==
    \/ r.status # "2xx"
    \/ ~r.json
    \/ op \in {"fb_start", "ig_create"} /\ (~Truthy(r.a) \/ ~Truthy(r.b))
    \/ op = "yt_chunk" /\ r.b = "done" /\ r.a = None

\* sent and failed after op was answered by r
Account(op, r) ==
    /\ sent' = sent \cup {op}
    /\ failed' = IF StepFailed(op, r) THEN failed \cup {op} ELSE failed

\* the request op(arg) is sent and r is what comes back
Send(op, arg, desc, r) ==
    /\ log' = Append(log, Event(op, arg, desc))
    /\ got' = [got EXCEPT ![op] = r]
    /\ Account(op, r)

\* the same for the first request after a client has returned
SendFirst(op, arg, desc, r) ==
    /\ log' = <<Event(op, arg, desc)>>
    /\ got' = [NoGot EXCEPT ![op] = r]
    /\ Account(op, r)

\* no request is sent
Quiet == UNCHANGED <<log, got, sent, failed>>

Static == UNCHANGED <<cfg, videoExists, description, rvars, tvars, mvars, qvars, nvars, bvars>>

\* the client entered by moving to next, appended to the invocations
Enter(next) ==
    IF next = "fb_start" THEN Append(calls, "facebook")
    ELSE IF next = "ig_create" THEN Append(calls, "instagram")
    ELSE IF next = "yt_load" THEN Append(calls, "youtube")
    ELSE calls

Goto(next) == pc' = next /\ calls' = Enter(next)

\* the YouTube block placed before the Facebook block
NextBlock_YoutubeFirst(after) ==
    CASE after = "begin" ->
            IF cfg.ytEnabled THEN "yt_load"
            ELSE IF cfg.fbEnabled THEN "fb_start" ELSE "returned"
      [] after = "youtube" -> IF cfg.fbEnabled THEN "fb_start" ELSE "returned"
      [] after = "facebook" -> "returned"

\* lines 57-84: the order of the blocks of upload_all: where control goes
\* at the beginning, after the Facebook/Instagram block, after the YouTube
\* block
NextBlock(after) ==
    CASE after = "begin" ->
            IF cfg.fbEnabled THEN "fb_start"
            ELSE IF cfg.ytEnabled THEN "yt_load" ELSE "returned"
      [] after = "facebook" -> IF cfg.ytEnabled THEN "yt_load" ELSE "returned"
      [] after = "youtube" -> "returned"

\* the YouTube block entered without looking at its enabled flag
AfterFacebookBlock_AlwaysYoutube == "yt_load"

\* lines 78-84: the YouTube block, or the return of results
AfterFacebookBlock == NextBlock("facebook")

\* results[p] = r: the client has returned r, its locals are gone
Return(p, r, next) ==
    /\ results' = DictSet(results, p, r)
    /\ order' = OrderSet(order, results, p)
    /\ writes' = [writes EXCEPT ![p] = @ + 1]
    /\ sess' = NoSess
    /\ Goto(next)

\* the client goes on to its next step with locals s
Continue(next, s) ==
    /\ sess' = s
    /\ pc' = next
    /\ UNCHANGED <<results, order, writes, calls>>

\* lines 46-58: build full_description, enter the first enabled block
UploadAllBegin ==
    /\ pc = "idle"
    /\ fullDesc' = description \o CtaText \o MusicLicense
    /\ Goto(NextBlock("begin"))
    /\ UNCHANGED <<ig_user_id, results, order, writes, sess, store>>
    /\ Quiet
    /\ Static

----------------------------------------------------------------------------
(* _upload_facebook *)

FbInitUrl == GraphBase \o PageId \o "/video_reels"

\* a Facebook failure ends upload_all
FbReturn_AbortOnFailure(r) ==
    Return("facebook", r, IF r.success THEN "discover" ELSE "returned")

\* the crosspost is skipped when the Facebook result is a Failure
FbReturn_SkipCrosspostOnFailure(r) ==
    Return("facebook", r, IF r.success THEN "discover" ELSE AfterFacebookBlock)

\* line 60: results['facebook'] = the client's return value
FbReturn(r) == Return("facebook", r, "discover")

\* the session is given up only when both fields are absent
FieldsMissing_BothMissing(a, b) == ~Truthy(a) /\ ~Truthy(b)

\* lines 158 and 383: a required field of the session-init response is
\* absent or empty
FieldsMissing(a, b) == ~Truthy(a) \/ ~Truthy(b)

\* lines 138-161: read the config, POST upload_phase=start, check the fields
FbStart ==
    /\ pc = "fb_start"
    /\ IF ~cfg.fbKeys
       THEN /\ FbReturn(Failure("KeyError: 'page_id'"))
            /\ Quiet
       ELSE \E r \in FbStartResponses :
            /\ Send("fb_start", PageId, None, r)
            /\ IF PostJsonError(r, FbInitUrl) # None
               THEN FbReturn(Failure(PostJsonError(r, FbInitUrl)))
               ELSE IF FieldsMissing(r.a, r.b)
               THEN FbReturn(Failure("Failed to initialize upload session"))
               ELSE Continue("fb_transfer",
                        [sess EXCEPT !.video_id = r.a, !.upload_url = r.b])
    /\ UNCHANGED <<fullDesc, ig_user_id, store>>
    /\ Static

\* the status of the transfer response is not looked at
TransferError_NoRaiseForStatus(r, url) ==
    IF r.status = "raise" THEN ConnErrText(url)
    ELSE None

\* the exception a binary POST followed by raise_for_status() ends in
TransferError(r, url) ==
    IF r.status = "raise" THEN ConnErrText(url)
    ELSE IF ~Ok(r) THEN HttpErrText(r, url)
    ELSE None

\* lines 163-180: stat and open the file, POST the bytes to upload_url
FbTransfer ==
    /\ pc = "fb_transfer"
    /\ IF ~videoExists
       THEN /\ FbReturn(Failure("FileNotFoundError: video"))
            /\ Quiet
       ELSE \E r \in TransferResponses :
            /\ Send("fb_transfer", sess.upload_url, None, r)
            /\ IF TransferError(r, sess.upload_url) # None
               THEN FbReturn(Failure(TransferError(r, sess.upload_url)))
               ELSE Continue("fb_finish", sess)
    /\ UNCHANGED <<fullDesc, ig_user_id, store>>
    /\ Static

\* lines 182-211: POST upload_phase=finish and build the result
FbFinish ==
    /\ pc = "fb_finish"
    /\ \E r \in FbFinishResponses :
        /\ Send("fb_finish", sess.video_id, fullDesc, r)
        /\ IF PostJsonError(r, FbInitUrl) # None
           THEN FbReturn(Failure(PostJsonError(r, FbInitUrl)))
           ELSE FbReturn(FbSuccess(sess.video_id, r.a))
    /\ UNCHANGED <<fullDesc, ig_user_id, store>>
    /\ Static

----------------------------------------------------------------------------
(* _get_instagram_account_id and _upload_instagram *)

IgUserId == "ig1"

\* a and b of a discovery response: the id of instagram_business_account
\* and whether the body has that key at all
DiscoveryResponses ==
    {Resp("raise", FALSE, None, None),
     Resp("2xx", FALSE, None, None),
     Resp("2xx", TRUE, None, None),
     Resp("4xx", TRUE, None, None),
     Resp("2xx", TRUE, None, "present"),
     Resp("2xx", TRUE, "", "present"),
     Resp("2xx", TRUE, IgUserId, "present")}

\* the page id is used when the page has no instagram_business_account
GetInstagramAccountId_FallbackToPage(r) ==
    IF r.status = "raise" \/ ~r.json THEN None
    ELSE IF r.b = "present" THEN r.a
    ELSE PageId

\* lines 343-357: every exception (request, json(), KeyError on 'id') is
\* caught and gives None
GetInstagramAccountId(r) ==
    IF r.status = "raise" \/ ~r.json THEN None
    ELSE IF r.b = "present" THEN r.a
    ELSE None

\* upload_all returns when no linked account was found
AfterDiscovery_ReturnWhenUnlinked(id) ==
    IF Truthy(id) THEN "ig_create" ELSE "returned"

\* lines 70-76: `if ig_user_id:` the Instagram client, else on to YouTube
AfterDiscovery(id) ==
    IF Truthy(id) THEN "ig_create" ELSE AfterFacebookBlock

\* lines 65-76: read the config, discover the linked account, branch
Discover ==
    /\ pc = "discover"
    /\ IF ~cfg.fbKeys
       THEN /\ pc' = "raised"
            /\ UNCHANGED <<ig_user_id, calls>>
            /\ Quiet
       ELSE \E r \in DiscoveryResponses :
            /\ SendFirst("discover", PageId, None, r)
            /\ ig_user_id' = GetInstagramAccountId(r)
            /\ Goto(AfterDiscovery(ig_user_id'))
    /\ UNCHANGED <<fullDesc, results, order, writes, sess, store>>
    /\ Static

ContainerId == "c1"
MediaIds == {"m1"}
IgUri == "https://rupload/ig/c1"
Permalink == "https://www.instagram.com/reel/Cxyz/"

\* a is the container id, b the upload uri
IgCreateResponses ==
    FailedResponses
    \cup {Resp("2xx", FALSE, None, None),
          Resp("2xx", TRUE, ContainerId, IgUri),
          Resp("2xx", TRUE, None, IgUri),
          Resp("2xx", TRUE, ContainerId, None)}

IgPublishResponses ==
    FailedResponses
    \cup {Resp("2xx", FALSE, None, None)}
    \cup {Resp("2xx", TRUE, m, None) : m \in MediaIds \cup {None}}

\* a is status_code; the status query is not checked with raise_for_status
IgPollResponses ==
    {Resp("raise", FALSE, None, None),
     Resp("2xx", FALSE, None, None),
     Resp("2xx", TRUE, "FINISHED", None),
     Resp("2xx", TRUE, "ERROR", None),
     Resp("2xx", TRUE, "IN_PROGRESS", None),
     Resp("5xx", TRUE, None, None)}

IgPermalinkResponses ==
    {Resp("raise", FALSE, None, None),
     Resp("4xx", TRUE, None, None),
     Resp("2xx", FALSE, None, None),
     Resp("2xx", TRUE, None, None),
     Resp("2xx", TRUE, "", None),
     Resp("2xx", TRUE, Permalink, None)}

\* range(10) of the processing poll and its time.sleep(5)
MaxPolls == 10
PollDelay == 5

\* the url is the looked-up permalink, without a fallback
IgSuccess_NoFallback(ig_media_id, video_id, permalink, publish_result) ==
    [success |-> TRUE,
     id |-> ig_media_id,
     container_id |-> video_id,
     url |-> permalink,
     response |-> publish_result]

\* lines 466-472: the Success of the Instagram client
IgSuccess(ig_media_id, video_id, permalink, publish_result) ==
    [success |-> TRUE,
     id |-> ig_media_id,
     container_id |-> video_id,
     url |-> IF Truthy(permalink) THEN permalink
             ELSE "https://www.instagram.com/reel/" \o PyStr(ig_media_id) \o "/",
     response |-> publish_result]

\* the url of a GET with its query string, as exception texts show it
GetUrl(id, fields) ==
    GraphBase \o id \o "?fields=" \o fields \o "&access_token=" \o AccessToken

\* the client's except clause lets the exception go on to upload_all
IgReturn_Reraise(r) ==
    IF r.success
    THEN Return("instagram", r, AfterFacebookBlock)
    ELSE /\ pc' = "raised"
         /\ UNCHANGED <<results, order, writes, sess, calls>>

\* line 72: results['instagram'] = the client's return value
IgReturn(r) == Return("instagram", r, AfterFacebookBlock)

\* the Instagram client is handed the description without the suffix
IgCaption_Bare == description

\* line 73: the caption argument of _upload_instagram is full_description
IgCaption == fullDesc

\* lines 365-386: POST the container creation, check the fields
IgCreate ==
    /\ pc = "ig_create"
    /\ \E r \in IgCreateResponses :
        LET init_url == GraphBase \o ig_user_id \o "/media" IN
        /\ Send("ig_create", ig_user_id, IgCaption, r)
        /\ IF PostJsonError(r, init_url) # None
           THEN IgReturn(Failure(PostJsonError(r, init_url)))
           ELSE IF FieldsMissing(r.b, r.a)
           THEN IgReturn(Failure("Failed to initialize Instagram upload session"))
           ELSE Continue("ig_transfer",
                    [sess EXCEPT !.video_id = r.a, !.upload_url = r.b])
    /\ UNCHANGED <<fullDesc, ig_user_id, store>>
    /\ Static

\* lines 388-409: stat and open the file, POST the bytes to uri
IgTransfer ==
    /\ pc = "ig_transfer"
    /\ IF ~videoExists
       THEN /\ IgReturn(Failure("FileNotFoundError: video"))
            /\ Quiet
       ELSE \E r \in TransferResponses :
            /\ Send("ig_transfer", sess.upload_url, None, r)
            /\ IF TransferError(r, sess.upload_url) # None
               THEN IgReturn(Failure(TransferError(r, sess.upload_url)))
               ELSE Continue("ig_publish", sess)
    /\ UNCHANGED <<fullDesc, ig_user_id, store>>
    /\ Static

\* lines 411-423: POST media_publish with creation_id = container id
IgPublish ==
    /\ pc = "ig_publish"
    /\ \E r \in IgPublishResponses :
        LET publish_url == GraphBase \o ig_user_id \o "/media_publish" IN
        /\ Send("ig_publish", sess.video_id, None, r)
        /\ IF PostJsonError(r, publish_url) # None
           THEN IgReturn(Failure(PostJsonError(r, publish_url)))
           ELSE Continue("ig_poll", [sess EXCEPT !.media_id = r.a])
    /\ UNCHANGED <<fullDesc, ig_user_id, store>>
    /\ Static

\* a status_code of ERROR is raised as an exception
PollError_ErrorStatusRaises(r, url) ==
    IF r.status = "raise" THEN ConnErrText(url)
    ELSE IF ~r.json THEN JsonErrText
    ELSE IF r.a = "ERROR" THEN "Instagram processing ERROR"
    ELSE None

\* the exception one status query ends in, or None
PollError(r, url) ==
    IF r.status = "raise" THEN ConnErrText(url)
    ELSE IF ~r.json THEN JsonErrText
    ELSE None

\* the status query asks for the published media
StatusTarget_Media(s) == PyStr(s.media_id)

\* lines 425-427: status_url is built from video_id, the container id
StatusTarget(s) == s.video_id

\* the loop is left on FINISHED and after the last iteration only
LeavesLoop_FinishedOnly(r, polls) ==
    r.a = "FINISHED" \/ polls + 1 >= MaxPolls

\* lines 433-445: break on FINISHED, break on ERROR, range(10) exhausted
LeavesLoop(r, polls) ==
    r.a \in {"FINISHED", "ERROR"} \/ polls + 1 >= MaxPolls

\* lines 433-447: one iteration of the poll: sleep, GET the container
\* status, leave the loop on FINISHED, on ERROR and after the last iteration
IgPoll ==
    /\ pc = "ig_poll"
    /\ \E r \in IgPollResponses :
        LET url == GetUrl(StatusTarget(sess), "status_code,status") IN
        /\ log' = log \o <<Event("sleep", PollDelay, None),
                           Event("ig_poll", StatusTarget(sess), None)>>
        /\ got' = [got EXCEPT !["ig_poll"] = r]
        /\ Account("ig_poll", r)
        /\ IF PollError(r, url) # None
           THEN IgReturn(Failure(PollError(r, url)))
           ELSE IF LeavesLoop(r, sess.polls)
           THEN Continue("ig_permalink", [sess EXCEPT !.polls = @ + 1])
           ELSE Continue("ig_poll", [sess EXCEPT !.polls = @ + 1])
    /\ UNCHANGED <<fullDesc, ig_user_id, store>>
    /\ Static

\* lines 433-435, 474: the operation is cancelled while the poll waits in
\* time.sleep or is inside requests.get: KeyboardInterrupt and SystemExit
\* are not Exceptions, so the except clause of line 474 does not catch them
\* and they leave _upload_instagram and upload_all without a result
IgPollInterrupt ==
    /\ pc = "ig_poll"
    /\ pc' = "cancelled"
    /\ \/ Quiet
       \/ /\ log' = log \o <<Event("sleep", PollDelay, None),
                             Event("ig_poll", StatusTarget(sess), None)>>
          /\ sent' = sent \cup {"ig_poll"}
          /\ UNCHANGED <<got, failed>>
    /\ UNCHANGED <<fullDesc, ig_user_id, results, order, writes, calls, sess,
                   store>>
    /\ Static

\* lines 451-464: the permalink, None when the lookup raises, is not ok or
\* has no permalink
FetchPermalink(r) ==
    IF r.status = "raise" THEN None
    ELSE IF ~Ok(r) THEN None
    ELSE IF ~r.json THEN None
    ELSE r.a

\* lines 449-472: GET the permalink of the media id, build the result
IgPermalink ==
    /\ pc = "ig_permalink"
    /\ \E r \in IgPermalinkResponses :
        /\ Send("ig_permalink", PyStr(sess.media_id), None, r)
        /\ IgReturn(IgSuccess(sess.media_id, sess.video_id,
                              FetchPermalink(r), got["ig_publish"].a))
    /\ UNCHANGED <<fullDesc, ig_user_id, store>>
    /\ Static

----------------------------------------------------------------------------
(* _upload_youtube *)

\* bound on the non-terminal answers to next_chunk in one attempt
MaxChunks == 2

YtVideoIds == {"yt1"}
Caption == "Q1"

\* a loaded credential is never taken as valid
CredValid_OnlyNew(c) == c \in {"refreshed", "fresh"}

\* the attributes of a google.oauth2 Credentials object
CredValid(c) == c \in {"valid", "refreshed", "fresh"}
CredExpired(c) == c \in {"expired_rt", "expired_nort"}
CredRefreshToken_Ignored(c) == TRUE
CredRefreshToken(c) == c \in {"valid", "expired_rt", "refreshed", "fresh"}

\* str.replace(old, new) for a one-character old
RECURSIVE Replace(_, _, _)
Replace(s, old, new) ==
    IF Len(s) = 0 THEN ""
    ELSE (IF SubSeq(s, 1, 1) = old THEN new ELSE SubSeq(s, 1, 1))
         \o Replace(SubSeq(s, 2, Len(s)), old, new)

\* the two string literals of line 262 as the file holds them, characters
\* outside ASCII written as \uXXXX: each is the three characters that the
\* UTF-8 bytes of a full-width bracket give when read as Windows-1252
LtReplacement == "\\u00EF\\u00BC\\u0153"
GtReplacement == "\\u00EF\\u00BC\\u017E"

\* lines 262-268: the description of the request body
YtDescription(d) ==
    Replace(Replace(d, "<", LtReplacement), ">", GtReplacement)
        \o "\n\n#Shorts"

\* a is the video id of a terminal response, b tells whether the response
\* is terminal ("done") or next_chunk returned (status, None)
YtChunkResponses ==
    FailedResponses
    \cup {Resp("2xx", TRUE, None, "progress"), Resp("2xx", TRUE, None, "done")}
    \cup {Resp("2xx", TRUE, v, "done") : v \in YtVideoIds}

\* the url of the watch page in place of the Shorts url
YtSuccess_WatchUrl(video_id, response) ==
    [success |-> TRUE,
     video_id |-> video_id,
     url |-> "https://www.youtube.com/watch?v=" \o PyStr(video_id),
     response |-> response]

\* lines 300-307: the Success of the YouTube client
YtSuccess(video_id, response) ==
    [success |-> TRUE,
     video_id |-> video_id,
     url |-> "https://youtube.com/shorts/" \o PyStr(video_id),
     response |-> response]

\* line 80: results['youtube'] = the client's return value, then line 84
YtReturn(r) == Return("youtube", r, NextBlock("youtube"))

\* the changed credential is used without being saved
AfterCredentialChange_SkipSave == "yt_build"

\* lines 243-254: the save of the credentials is inside the branch that
\* refreshed or obtained them and comes before line 257
AfterCredentialChange == "yt_save"

\* lines 234-246: load the pickled credentials, choose refresh, flow or none
YtLoad ==
    /\ pc = "yt_load"
    /\ IF store \in {"corrupt", "empty", "partial"}
       THEN YtReturn(Failure("UnpicklingError: pickle data was truncated"))
       ELSE LET creds == IF store = "absent" THEN None ELSE store IN
            Continue(IF creds # None /\ CredValid(creds) THEN "yt_build"
                     ELSE IF creds # None /\ CredExpired(creds)
                                          /\ CredRefreshToken(creds)
                     THEN "yt_refresh"
                     ELSE "yt_flow",
                     [sess EXCEPT !.creds = creds])
    /\ log' = <<>>
    /\ got' = NoGot
    /\ UNCHANGED <<fullDesc, ig_user_id, sent, failed, store>>
    /\ Static

\* line 245: creds.refresh(Request())
YtRefresh ==
    /\ pc = "yt_refresh"
    /\ \E r \in {Resp("raise", FALSE, None, None), Resp("2xx", TRUE, None, None)} :
        /\ Send("yt_refresh", sess.creds, None, r)
        /\ IF ~Ok(r)
           THEN YtReturn(Failure("RefreshError: invalid_grant"))
           ELSE Continue(AfterCredentialChange, [sess EXCEPT !.creds = "refreshed"])
    /\ UNCHANGED <<fullDesc, ig_user_id, store>>
    /\ Static

\* lines 247-250: the interactive flow from the client secrets file
YtFlow ==
    /\ pc = "yt_flow"
    /\ \E r \in {Resp("raise", FALSE, None, None), Resp("2xx", TRUE, None, None)} :
        /\ Send("yt_flow", PyStr(sess.creds), None, r)
        /\ IF ~Ok(r)
           THEN YtReturn(Failure("FileNotFoundError: client_secrets"))
           ELSE Continue(AfterCredentialChange, [sess EXCEPT !.creds = "fresh"])
    /\ UNCHANGED <<fullDesc, ig_user_id, store>>
    /\ Static

\* line 253: open(token_file, 'wb') truncates the file, or raises
YtSaveOpen ==
    /\ pc = "yt_save"
    /\ \E ok \in BOOLEAN :
        IF ok
        THEN /\ store' = "empty"
             /\ log' = Append(log, Event("store_open", sess.creds, None))
             /\ Continue("yt_dump", sess)
        ELSE /\ YtReturn(Failure("PermissionError: token file"))
             /\ UNCHANGED <<store, log>>
    /\ UNCHANGED <<fullDesc, ig_user_id, got, sent, failed>>
    /\ Static

\* line 254: pickle.dump(creds, token) writes the file, or raises half way
YtSaveDump ==
    /\ pc = "yt_dump"
    /\ \E ok \in BOOLEAN :
        /\ log' = Append(log, Event("store_write", sess.creds, None))
        /\ IF ok
           THEN /\ store' = sess.creds
                /\ Continue("yt_build", sess)
           ELSE /\ store' = "partial"
                /\ YtReturn(Failure("OSError: No space left on device"))
    /\ UNCHANGED <<fullDesc, ig_user_id, got, sent, failed>>
    /\ Static

\* lines 256-290: build the service, the body, the media and the request
YtBuild ==
    /\ pc = "yt_build"
    /\ \E ok \in BOOLEAN :
        IF ~ok
        THEN YtReturn(Failure("HttpError: discovery"))
        ELSE IF ~videoExists
        THEN YtReturn(Failure("FileNotFoundError: video"))
        ELSE Continue("yt_chunk", sess)
    /\ UNCHANGED <<fullDesc, ig_user_id, store>>
    /\ Quiet
    /\ Static

\* lines 292-313: one request.next_chunk() of the upload loop
YtChunk ==
    /\ pc = "yt_chunk"
    /\ \E r \in YtChunkResponses :
        /\ r.b = "progress" => sess.chunks < MaxChunks
        /\ Send("yt_chunk", Caption, YtDescription(fullDesc), r)
        /\ IF ~Ok(r)
           THEN YtReturn(Failure(
                    IF r.status = "raise"
                    THEN ConnErrText("upload/youtube/v3/videos")
                    ELSE HttpErrText(r, "upload/youtube/v3/videos")))
           ELSE IF r.b = "progress"
           THEN Continue("yt_chunk", [sess EXCEPT !.chunks = @ + 1])
           ELSE IF r.a = None
           THEN YtReturn(Failure("KeyError: 'id'"))
           ELSE YtReturn(YtSuccess(r.a, r.a))
    /\ UNCHANGED <<fullDesc, ig_user_id, store>>
    /\ Static

----------------------------------------------------------------------------

Next ==
    \/ UploadAllBegin
    \/ FbStart
    \/ FbTransfer
    \/ FbFinish
    \/ Discover
    \/ IgCreate
    \/ IgTransfer
    \/ IgPublish
    \/ IgPoll
    \/ IgPollInterrupt
    \/ IgPermalink
    \/ YtLoad
    \/ YtRefresh
    \/ YtFlow
    \/ YtSaveOpen
    \/ YtSaveDump
    \/ YtBuild
    \/ YtChunk

Spec == Init /\ [][Next]_vars

----------------------------------------------------------------------------
(* _retry_upload *)

\* no upload_all call is running
NoUploadCall ==
    /\ videoExists = TRUE
    /\ description = "Solve <this>"
    /\ pc = "off"
    /\ fullDesc = None
    /\ ig_user_id = None
    /\ results = <<>>
    /\ order = <<>>
    /\ writes = [p \in Platforms |-> 0]
    /\ calls = <<>>
    /\ log = <<>>
    /\ got = NoGot
    /\ sent = {}
    /\ failed = {}
    /\ sess = NoSess
    /\ store = "absent"

UploadParked ==
    /\ cfg = [fbEnabled |-> TRUE, ytEnabled |-> TRUE, fbKeys |-> TRUE]
    /\ NoUploadCall

max_attempts == 3
base_delay == 5

\* error texts an upload function returns that stand for a network error,
\* a failed transfer and a server error
TransientErrors ==
    {ConnErrText(FbInitUrl),
     HttpErrText(Resp("5xx", FALSE, None, None), UploadUrl),
     HttpErrText(Resp("5xx", FALSE, None, None), FbInitUrl)}

\* error texts that stand for a rejected token and a malformed request
PermanentErrors ==
    {"401 Client Error: Unauthorized for url: " \o FbInitUrl,
     HttpErrText(Resp("4xx", FALSE, None, None), FbInitUrl)}

\* what upload_func(*args, **kwargs) returns: a client's Success or Failure
UploadOutcomes ==
    {FbSuccess("123", "true")}
    \cup {Failure(e) : e \in TransientErrors \cup PermanentErrors}

RetryInit ==
    /\ UploadParked
    /\ VerifyParked
    /\ MainParked
    /\ SelectorParked
    /\ NotifierParked
    /\ BankParked
    /\ rpc = "idle"
    /\ attempt = 0
    /\ result = None
    /\ attempts = <<>>
    /\ sleeps = <<>>

\* range(max_attempts) has one more value than a
InRange_Inclusive(a) == a <= max_attempts

\* line 325: a is in range(max_attempts)
InRange(a) == a < max_attempts

\* line 331: a failed attempt a is followed by a sleep
SleepBefore(a) == a < max_attempts - 1

\* 2 ** (attempt + 1): the exponent counted from 1
Delay_FromOne(a) == base_delay * (2 ^ (a + 1))

\* line 332: delay = base_delay * (2 ** attempt)
Delay(a) == base_delay * (2 ^ a)

\* the for statement takes the next value of range(max_attempts), or the
\* loop is over and line 337 returns result
NextIteration ==
    IF InRange(attempt + 1)
    THEN rpc' = "call" /\ attempt' = attempt + 1
    ELSE rpc' = "returned" /\ UNCHANGED attempt

\* lines 322-325: the first iteration
RetryBegin ==
    /\ rpc = "idle"
    /\ rpc' = "call"
    /\ attempt' = 0
    /\ UNCHANGED <<result, attempts, sleeps, uvars, tvars, mvars, qvars, nvars, bvars>>

\* lines 326-331: call upload_func, return a Success, else sleep or go on
RetryCall ==
    /\ rpc = "call"
    /\ \E r \in UploadOutcomes :
        /\ result' = r
        /\ attempts' = Append(attempts, r)
        /\ IF r.success
           THEN rpc' = "returned" /\ UNCHANGED attempt
           ELSE IF SleepBefore(attempt)
           THEN rpc' = "sleep" /\ UNCHANGED attempt
           ELSE NextIteration
    /\ UNCHANGED <<sleeps, uvars, tvars, mvars, qvars, nvars, bvars>>

\* line 326: upload_func raises; nothing in _retry_upload catches it
RetryCallRaises ==
    /\ rpc = "call"
    /\ rpc' = "raised"
    /\ UNCHANGED <<attempt, result, attempts, sleeps, uvars, tvars, mvars, qvars, nvars, bvars>>

\* lines 332-335: time.sleep(delay)
RetrySleep ==
    /\ rpc = "sleep"
    /\ sleeps' = Append(sleeps, Delay(attempt))
    /\ NextIteration
    /\ UNCHANGED <<result, attempts, uvars, tvars, mvars, qvars, nvars, bvars>>

RetryNext ==
    \/ RetryBegin
    \/ RetryCall
    \/ RetryCallRaises
    \/ RetrySleep

SpecRetry == RetryInit /\ [][RetryNext]_vars

----------------------------------------------------------------------------
(* verify_facebook_token *)

Day == 86400

\* the clock readings of datetime.now()
Nows == {1700000000, 1700000001, 1700000000 + 43200}

\* expires_at values: never, and instants around 0, 5, 6 and 60 days after
\* the first clock reading
ExpiryValues ==
    {0} \cup {1700000000 + d * Day + o : d \in {-1, 0, 5, 6, 60}, o \in {0, 1}}

\* what the GET of debug_token ends in: the request raises; the body is
\* not JSON; the JSON has no 'data'; data is null; data has no
\* 'expires_at'; expires_at is not a number; expires_at is a number no
\* datetime can hold; expires_at is a timestamp
IntrospectionResponses ==
    {[kind |-> k, expires_at |-> 0] :
        k \in {"raise", "nonjson", "nodata", "datanull", "noexpiry",
               "badtype", "overflow"}}
    \cup {[kind |-> "expires", expires_at |-> e] : e \in ExpiryValues}

\* a verify_facebook_token call is about to begin
VerifyCalled ==
    /\ cfg \in Configs
    /\ NoUploadCall
    /\ RetryParked
    /\ SelectorParked
    /\ NotifierParked
    /\ BankParked
    /\ vpc = "idle"
    /\ now \in Nows
    /\ data = NoData
    /\ ret = RetNone

VerifyInit == VerifyCalled /\ MainParked

\* the except clause lets the exception go on to the caller
Caught_Reraise(d) == RetRaised

\* lines 124-126: except Exception: log a warning, return None
Caught(d) == RetNone

\* the difference in days rounded toward zero
DaysRemaining_Truncate(expires_at, n) ==
    IF expires_at >= n THEN (expires_at - n) \div Day
    ELSE 0 - ((n - expires_at) \div Day)

\* line 119: (expiry_date - datetime.now()).days, which rounds down
DaysRemaining(expires_at, n) == (expires_at - n) \div Day

\* lines 109-122: the value computed from the parsed body d at clock n
TokenDays(d, n) ==
    IF d.kind \in {"datanull", "badtype", "overflow"} THEN Caught(d)
    ELSE IF d.kind \in {"nodata", "noexpiry"} THEN RetNone
    ELSE IF d.expires_at = 0 THEN RetDays(9999)
    ELSE RetDays(DaysRemaining(d.expires_at, n))

\* lines 93-97: return None when Facebook is disabled, read the token
VerifyBegin ==
    /\ vpc = "idle"
    /\ IF ~cfg.fbEnabled
       THEN vpc' = "returned" /\ ret' = RetNone
       ELSE IF ~cfg.fbKeys
       THEN vpc' = "returned" /\ ret' = Caught(data)
       ELSE vpc' = "request" /\ UNCHANGED ret
    /\ UNCHANGED <<now, data, uvars, rvars, mvars, qvars, nvars, bvars>>

\* lines 106-107: GET debug_token and parse the body
VerifyRequest ==
    /\ vpc = "request"
    /\ \E r \in IntrospectionResponses :
        /\ data' = r
        /\ IF r.kind \in {"raise", "nonjson"}
           THEN vpc' = "returned" /\ ret' = Caught(r)
           ELSE vpc' = "compute" /\ UNCHANGED ret
    /\ UNCHANGED <<now, uvars, rvars, mvars, qvars, nvars, bvars>>

\* lines 109-122: look for data.expires_at and compute the days
VerifyCompute ==
    /\ vpc = "compute"
    /\ ret' = TokenDays(data, now)
    /\ vpc' = "returned"
    /\ UNCHANGED <<now, data, uvars, rvars, mvars, qvars, nvars, bvars>>

VerifyNext ==
    \/ VerifyBegin
    \/ VerifyRequest
    \/ VerifyCompute

SpecVerify == VerifyInit /\ [][VerifyNext]_vars

----------------------------------------------------------------------------
(* main.py: the token check of main() *)

\* line 166: main() calls upload_manager.verify_facebook_token()
MainInit ==
    /\ VerifyCalled
    /\ mpc = "token_check"
    /\ alerts = <<>>

\* None is taken for a number
NeedsAlert_NoneAsZero(r) == r.days <= 5

\* lines 167-169: days_remaining is not None and days_remaining <= 5
NeedsAlert(r) == r.kind = "days" /\ r.days <= 5

\* lines 166-181: the returned value is looked at, send_alert is called
\* for a token about to expire, and the pipeline goes on to step 1; an
\* exception out of verify_facebook_token ends in the except of line 276
MainTokenCheck ==
    /\ mpc = "token_check"
    /\ vpc = "returned"
    /\ IF ret = RetRaised
       THEN mpc' = "failed" /\ UNCHANGED alerts
       ELSE /\ mpc' = "select_question"
            /\ alerts' = IF NeedsAlert(ret)
                         THEN Append(alerts,
                                [title |-> "Facebook Token Expiring Soon",
                                 days |-> ret.days])
                         ELSE alerts
    /\ UNCHANGED <<uvars, rvars, tvars, qvars, nvars, bvars>>

MainNext ==
    \/ VerifyBegin
    \/ VerifyRequest
    \/ VerifyCompute
    \/ MainTokenCheck

SpecMain == MainInit /\ [][MainNext]_vars

----------------------------------------------------------------------------
(* modules/question_selector.py: _validate_questions and get_description *)

\* the question objects: explanations (one quoting the answer label, one
\* empty), answers in and out of A-D, three or four options, and hashtag
\* lists that are empty, single, several, or hold an empty tag
Questions ==
    [explanation : {"2+2=4", "Correct Answer: B is wrong", ""},
     answer : {"A", "D", "E", "a"},
     options : {<<"1", "2", "3", "4">>, <<"1", "2", "3">>},
     hashtags : {<<>>, <<"#math">>, <<"#math", "#quiz">>, <<"#a", "", "#b">>}]

QuestionInit ==
    /\ UploadParked
    /\ RetryParked
    /\ VerifyParked
    /\ MainParked
    /\ NotifierParked
    /\ BankParked
    /\ qpc = "loaded"
    /\ question \in Questions
    /\ qdesc = None

\* lines 57-72: options has 4 items, hashtags is non-empty, answer is one
\* of A, B, C, D
Validates(q) ==
    /\ Len(q.options) = 4
    /\ Len(q.hashtags) # 0
    /\ q.answer \in {"A", "B", "C", "D"}

\* line 150: ord(answer_letter) - ord('A')
AnswerIndex(letter) ==
    CASE letter = "A" -> 0 [] letter = "B" -> 1 [] letter = "C" -> 2
      [] letter = "D" -> 3 [] letter = "E" -> 4 [] letter = "a" -> 32

\* line 151: options[answer_index] when the index is in range, else ""
AnswerText(q) ==
    LET answer_index == AnswerIndex(q.answer) IN
    IF 0 <= answer_index /\ answer_index < Len(q.options)
    THEN q.options[answer_index + 1] ELSE ""

\* line 161: ' '.join(hashtags)
RECURSIVE JoinSpace(_)
JoinSpace(hs) ==
    IF Len(hs) = 0 THEN ""
    ELSE IF Len(hs) = 1 THEN hs[1]
    ELSE hs[1] \o " " \o JoinSpace(Tail(hs))

\* the two emoji of the content, written as \UXXXXXXXX
Memo == "\\U0001F4DD"
CheckMark == "\\U00002705"
Books == "\\U0001F4DA"

\* the answer line placed before the solution
GetDescription_AnswerFirst(q) ==
    CheckMark \o " Correct Answer: " \o q.answer
        \o " (" \o AnswerText(q) \o ")\n\n"
    \o Memo \o " Solution:\n" \o q.explanation \o "\n\n"
    \o "Follow for daily practice! " \o Books
    \o "\n\n" \o JoinSpace(q.hashtags)

\* lines 145-163: the solution, the answer line, the call to follow and
\* the hashtags
GetDescription(q) ==
    Memo \o " Solution:\n" \o q.explanation \o "\n\n"
    \o CheckMark \o " Correct Answer: " \o q.answer
        \o " (" \o AnswerText(q) \o ")\n\n"
    \o "Follow for daily practice! " \o Books
    \o "\n\n" \o JoinSpace(q.hashtags)

\* lines 42-74: the question passes validation or ValueError is raised
ValidateQuestion ==
    /\ qpc = "loaded"
    /\ qpc' = IF Validates(question) THEN "valid" ELSE "invalid"
    /\ UNCHANGED <<question, qdesc, uvars, rvars, tvars, mvars, nvars, bvars>>

\* lines 131-163: get_description of a validated question
DescribeQuestion ==
    /\ qpc = "valid"
    /\ qdesc' = GetDescription(question)
    /\ qpc' = "described"
    /\ UNCHANGED <<question, uvars, rvars, tvars, mvars, nvars, bvars>>

QuestionNext ==
    \/ ValidateQuestion
    \/ DescribeQuestion

SpecQuestion == QuestionInit /\ [][QuestionNext]_vars

----------------------------------------------------------------------------
(* modules/telegram_notifier.py: send_alert, send_error_alert, _send_message *)

BotToken == "123456:AAH-secret"

\* line 117: the url of sendMessage, which holds the bot token
SendMessageUrl ==
    "https://api.telegram.org/bot" \o BotToken \o "/sendMessage"

\* line 114
max_retries == 3

\* line 139: time.sleep(2)
RetryWait == 2

\* line 126: timeout=10
PostTimeout == 10

\* what requests.post and raise_for_status end in
PostOutcomes == {"2xx", "4xx", "5xx", "connection", "timeout"}

\* str(e) of the exception of a failed post
PostErrorText(o) ==
    CASE o = "4xx" ->
            "400 Client Error: Bad Request for url: " \o SendMessageUrl
      [] o = "5xx" ->
            "502 Server Error: Bad Gateway for url: " \o SendMessageUrl
      [] o = "connection" ->
            "HTTPSConnectionPool(host='api.telegram.org', port=443): "
            \o "Max retries exceeded with url: /bot" \o BotToken
            \o "/sendMessage"
      [] o = "timeout" ->
            "HTTPSConnectionPool(host='api.telegram.org', port=443): "
            \o "Read timed out. (read timeout=10)"

\* str.replace: every occurrence of old, from left to right
RECURSIVE ReplaceAll(_, _, _)
ReplaceAll(s, old, new) ==
    LET at == {i \in 1..(Len(s) - Len(old) + 1) :
                    SubSeq(s, i, i + Len(old) - 1) = old}
    IN IF at = {} THEN s
       ELSE LET first == CHOOSE i \in at : \A j \in at : i <= j IN
            SubSeq(s, 1, first - 1) \o new
            \o ReplaceAll(SubSeq(s, first + Len(old), Len(s)), old, new)

\* the error text is logged as the exception gives it
ErrorMsg_Verbatim(text) == text

\* line 134: str(e).replace(self.bot_token, "[REDACTED]")
ErrorMsg(text) == ReplaceAll(text, BotToken, "[REDACTED]")

\* one entry of nlog
NEvent(op, secs, text) == [op |-> op, secs |-> secs, text |-> text]

NotifyInit ==
    /\ UploadParked
    /\ RetryParked
    /\ VerifyParked
    /\ MainParked
    /\ SelectorParked
    /\ BankParked
    /\ npc = "called"
    /\ ncall \in {"send_alert", "send_error_alert"}
    /\ nenabled \in BOOLEAN
    /\ nattempt = 0
    /\ nlog = <<>>
    /\ nret = None

\* lines 155-167, 179-192: return False when disabled, else format the
\* message and hand it to _send_message
NotifyBegin ==
    /\ npc = "called"
    /\ IF ~nenabled
       THEN npc' = "returned" /\ nret' = FALSE
       ELSE npc' = "post" /\ UNCHANGED nret
    /\ UNCHANGED <<ncall, nenabled, nattempt, nlog>>
    /\ UNCHANGED <<uvars, rvars, tvars, mvars, qvars, bvars>>

\* lines 115-142: one iteration of the loop of _send_message: post, return
\* True; or log the redacted error, and sleep or return False
NotifyPost ==
    /\ npc = "post"
    /\ \E o \in PostOutcomes :
        LET post == NEvent("post", PostTimeout, o)
            error_msg == ErrorMsg(PostErrorText(o))
        IN
        IF o = "2xx"
        THEN /\ nlog' = Append(nlog, post)
             /\ nret' = TRUE
             /\ npc' = "returned"
             /\ UNCHANGED nattempt
        ELSE IF nattempt < max_retries - 1
        THEN /\ nlog' = nlog \o <<post, NEvent("warning", 0, error_msg),
                                  NEvent("sleep", RetryWait, "")>>
             /\ nattempt' = nattempt + 1
             /\ UNCHANGED <<npc, nret>>
        ELSE /\ nlog' = nlog \o <<post, NEvent("error", 0, error_msg)>>
             /\ nret' = FALSE
             /\ npc' = "returned"
             /\ UNCHANGED nattempt
    /\ UNCHANGED <<ncall, nenabled>>
    /\ UNCHANGED <<uvars, rvars, tvars, mvars, qvars, bvars>>

NotifyNext ==
    \/ NotifyBegin
    \/ NotifyPost

SpecNotify == NotifyInit /\ [][NotifyNext]_vars

----------------------------------------------------------------------------
(* modules/question_selector.py: the used set and the used-questions log *)

\* bound on the lines of the used-questions log
MaxLogLines == 3

Difficulties == {"easy", "hard"}

\* the ids passed to mark_as_used; no bank holds a question with id 3
QuestionIds == {1, 2, 3}

Q(id, difficulty) == [id |-> id, difficulty |-> difficulty]

\* the banks: empty, one question, two questions in both orders, and two
\* questions with the same id (validation does not look at the ids)
Banks ==
    {<<>>,
     <<Q(1, "easy")>>,
     <<Q(1, "easy"), Q(2, "hard")>>,
     <<Q(2, "easy"), Q(1, "easy")>>,
     <<Q(1, "easy"), Q(1, "hard")>>}

\* line 173: f"{question_id}\n", the line written for an id
IdLine(id) == CASE id = 1 -> "1" [] id = 2 -> "2" [] id = 3 -> "3"

\* line 84: line.strip()
Strip(line) ==
    CASE line = "1" -> "1" [] line = "2" -> "2" [] line = "3" -> "3"
      [] line = " 2 " -> "2" [] line = "" -> "" [] line = "  " -> ""
      [] line = "x" -> "x"

\* int() accepts the text
IsInt(text) == text \in {"1", "2", "3"}

\* line 84: int(text)
ParseInt(text) == CASE text = "1" -> 1 [] text = "2" -> 2 [] text = "3" -> 3

\* the logs found when the selector is constructed: none, an empty one,
\* logs of ids, a log with a blank line and a padded id, a log with the id
\* of a question no longer in the bank, a log with a line that is no number
LoadedLogs ==
    {LogFile(FALSE, <<>>),
     LogFile(TRUE, <<>>),
     LogFile(TRUE, <<"1">>),
     LogFile(TRUE, <<"1", "1">>),
     LogFile(TRUE, <<"  ", " 2 ">>),
     LogFile(TRUE, <<"3">>),
     LogFile(TRUE, <<"x">>)}

\* lines 76-89: no file gives the empty set; else the set of int(line) of
\* the lines that are not blank; ValueError of int() is caught and gives
\* the empty set
LoadUsedIds(f) ==
    IF ~f.exists THEN {}
    ELSE LET filled == {i \in 1..Len(f.lines) : Strip(f.lines[i]) # ""} IN
         IF \E i \in filled : ~IsInt(Strip(f.lines[i])) THEN {}
         ELSE {ParseInt(Strip(f.lines[i])) : i \in filled}

\* lines 24-28: the selector after construction
BankInit ==
    /\ UploadParked
    /\ RetryParked
    /\ VerifyParked
    /\ MainParked
    /\ SelectorParked
    /\ NotifierParked
    /\ questions \in Banks
    /\ used_log \in LoadedLogs
    /\ used_ids = LoadUsedIds(used_log)
    /\ marked = {}
    /\ qret = NoCall

\* the places of the bank whose question is not used
Unused(qs, used) == {i \in 1..Len(qs) : qs[i].id \notin used}

\* the last unused question is returned
NextQuestion_Last(qs, used) ==
    IF Unused(qs, used) = {} THEN 0
    ELSE CHOOSE i \in Unused(qs, used) : \A j \in Unused(qs, used) : j <= i

\* lines 99-106: unused[0], or None when unused is empty
NextQuestion(qs, used) ==
    IF Unused(qs, used) = {} THEN 0
    ELSE CHOOSE i \in Unused(qs, used) : \A j \in Unused(qs, used) : i <= j

\* lines 183-204: total, used, remaining = total - used, and the sum of
\* the counts of remaining_by_difficulty (percentage_used and by_difficulty
\* are left out)
Stats(qs, used) ==
    [total |-> Len(qs),
     used |-> Cardinality(used),
     remaining |-> Len(qs) - Cardinality(used),
     remaining_sum |->
        Cardinality({i \in Unused(qs, used) : qs[i].difficulty = "easy"})
        + Cardinality({i \in Unused(qs, used) : qs[i].difficulty = "hard"})]

BankFrame == UNCHANGED <<uvars, rvars, tvars, mvars, qvars, nvars>>

\* lines 165-179: append the id to the log and add it to the set; when the
\* open or the write raises, log the error and raise again
MarkAsUsed ==
    /\ \E id \in QuestionIds :
        \/ /\ Len(used_log.lines) < MaxLogLines
           /\ used_log' = LogFile(TRUE, Append(used_log.lines, IdLine(id)))
           /\ used_ids' = used_ids \cup {id}
           /\ marked' = marked \cup {id}
           /\ qret' = Returned("mark_as_used", FALSE, id, 0, NoStats)
        \/ /\ qret' = Returned("mark_as_used", TRUE, id, 0, NoStats)
           /\ UNCHANGED <<used_log, used_ids, marked>>
    /\ UNCHANGED questions
    /\ BankFrame

\* lines 206-211: unlink the log when it exists, empty the set
ResetUsed ==
    /\ used_log' = LogFile(FALSE, <<>>)
    /\ used_ids' = {}
    /\ marked' = {}
    /\ qret' = Returned("reset", FALSE, 0, 0, NoStats)
    /\ UNCHANGED questions
    /\ BankFrame

\* lines 91-113: get_next_question
GetNextQuestion ==
    /\ qret' = Returned("get_next_question", FALSE, 0,
                        NextQuestion(questions, used_ids), NoStats)
    /\ UNCHANGED <<questions, used_ids, used_log, marked>>
    /\ BankFrame

\* lines 181-204: get_stats
GetStats ==
    /\ qret' = Returned("get_stats", FALSE, 0, 0, Stats(questions, used_ids))
    /\ UNCHANGED <<questions, used_ids, used_log, marked>>
    /\ BankFrame

\* lines 24-28: a new selector is constructed over the same files
Reload ==
    /\ used_ids' = LoadUsedIds(used_log)
    /\ marked' = {}
    /\ qret' = NoCall
    /\ UNCHANGED <<questions, used_log>>
    /\ BankFrame

BankNext ==
    \/ MarkAsUsed
    \/ ResetUsed
    \/ GetNextQuestion
    \/ GetStats
    \/ Reload

SpecBank == BankInit /\ [][BankNext]_vars

----------------------------------------------------------------------------
(* Vocabulary of the properties *)

Range(q) == {q[i] : i \in 1..Len(q)}

Has(p) == p \in DOMAIN results

\* a result with success = false and a non-empty error reason
IsFailure(r) == ~r.success /\ "error" \in DOMAIN r /\ r.error # ""

IsSuccess(r) == r.success

\* number of entries of the log that are the request op
Count(op) == Cardinality({i \in 1..Len(log) : log[i].op = op})

\* the platforms upload_all is to attempt: facebook when enabled, instagram
\* when enabled and linked, youtube when enabled
Attempted(p) ==
    CASE p = "facebook" -> cfg.fbEnabled
      [] p = "instagram" -> cfg.fbEnabled /\ Truthy(ig_user_id)
      [] p = "youtube" -> cfg.ytEnabled

PlatformOps(p) ==
    CASE p = "facebook" -> {"fb_start", "fb_transfer", "fb_finish"}
      [] p = "instagram" -> {"ig_create", "ig_transfer", "ig_publish",
                             "ig_poll", "ig_permalink"}
      [] p = "youtube" -> {"yt_refresh", "yt_flow", "yt_chunk"}

\* the steps a platform's protocol consists of were all sent and none of the
\* platform's requests was answered by a failure
StepsSucceeded(p) ==
    /\ PlatformOps(p) \cap failed = {}
    /\ CASE p = "facebook" -> {"fb_start", "fb_transfer", "fb_finish"} \subseteq sent
         [] p = "instagram" -> {"ig_create", "ig_transfer", "ig_publish"} \subseteq sent
         [] p = "youtube" -> "yt_chunk" \in sent

Rank(p) ==
    CASE p = "facebook" -> 1 [] p = "instagram" -> 2 [] p = "youtube" -> 3

\* q lists platforms in the order Facebook, Instagram, YouTube, each once
InPlatformOrder(q) ==
    \A i, j \in 1..Len(q) : i < j => Rank(q[i]) < Rank(q[j])

----------------------------------------------------------------------------

\* C1: when upload_all has returned, every attempted platform (facebook when
\* enabled, instagram when enabled and linked, youtube when enabled) has an
\* entry in results that was assigned exactly once, a platform that was not
\* attempted has no entry and was never assigned, and at no time has an
\* entry been assigned twice.
C1_OneResultPerAttemptedPlatform ==
    /\ \A p \in Platforms : writes[p] <= 1
    /\ pc = "returned" =>
        \A p \in Platforms :
            IF Attempted(p)
            THEN Has(p) /\ writes[p] = 1
                 /\ Cardinality({i \in 1..Len(order) : order[i] = p}) = 1
            ELSE ~Has(p) /\ writes[p] = 0 /\ p \notin Range(order)

\* a returned call with Facebook and YouTube entries and no linked account
C1_Witness ==
    /\ pc = "returned"
    /\ DOMAIN results = {"facebook", "youtube"}
    /\ writes = [p \in Platforms |-> IF p = "instagram" THEN 0 ELSE 1]

----------------------------------------------------------------------------

\* the steps whose failure ends the client's attempt
GatingOps(p) == PlatformOps(p) \ {"ig_poll", "ig_permalink"}

\* C3 as stated: upload_all never raises because of a failed step, and a
\* step of a platform client that ends in an exception or a non-2xx status
\* gives that platform a result with success = false and an error reason.
C3_AnyStepFailureIsFailure ==
    /\ pc = "raised" => sent = {}
    /\ \A p \in Platforms : \A op \in PlatformOps(p) :
        (Has(p) /\ got[op].status \in FailureStatuses) => IsFailure(results[p])

\* C3, amended: no failed step makes upload_all raise (it raises only for a
\* configuration without the Facebook keys, with no request sent); a failure
\* (exception, non-2xx status, unparseable or incomplete body) of a Facebook
\* step, of the Instagram container creation, transfer or publish, or of a
\* YouTube step gives that platform a result with success = false and an
\* error reason, held by the map upload_all returns.
C3_GatingStepFailureIsFailure ==
    /\ pc = "raised" => ~cfg.fbKeys /\ sent = {}
    /\ \A p \in Platforms :
        (Has(p) /\ GatingOps(p) \cap failed # {}) => IsFailure(results[p])

\* the Facebook transfer failed, upload_all returned a map with the Failure
C3_Witness ==
    /\ pc = "returned"
    /\ "fb_transfer" \in failed
    /\ Has("facebook") /\ IsFailure(results["facebook"])
    /\ Has("youtube")

\* the discovery response names a linked account
Linked(r) == r.status # "raise" /\ r.json /\ r.b = "present" /\ Truthy(r.a)

\* C4: the Instagram client is invoked only with Facebook enabled and a
\* linked account id returned by the discovery request; the id handed to it
\* is the one of the response; while no linked account is discovered the
\* client is not invoked, sends nothing and results has no instagram key.
C4_InstagramOnlyWhenLinked ==
    /\ "instagram" \in Range(calls) =>
            cfg.fbEnabled /\ Truthy(ig_user_id) /\ "discover" \in sent
    /\ got["discover"] # NoResp =>
            /\ Truthy(ig_user_id) <=> Linked(got["discover"])
            /\ Truthy(ig_user_id) => ig_user_id = got["discover"].a
    /\ ~Truthy(ig_user_id) =>
            /\ "instagram" \notin Range(calls)
            /\ ~Has("instagram")
            /\ PlatformOps("instagram") \cap sent = {}
    /\ Has("instagram") => "instagram" \in Range(calls)

\* the page has no instagram_business_account: results holds facebook alone
C4_Witness ==
    /\ pc = "returned"
    /\ got["discover"] = Resp("2xx", TRUE, None, None)
    /\ DOMAIN results = {"facebook"}
    /\ calls = <<"facebook">>

\* C5: the clients are invoked in the order Facebook, Instagram, YouTube,
\* the entries of results are inserted in that order, a client is invoked
\* only when the one before it has returned, and when upload_all returns
\* every invoked client has returned and none is running.
C5_SequentialInOrder ==
    /\ InPlatformOrder(calls)
    /\ InPlatformOrder(order)
    /\ Len(order) <= Len(calls)
    /\ Len(calls) - Len(order) <= 1
    /\ \A i \in 1..Len(order) : order[i] = calls[i]
    /\ pc = "returned" => order = calls /\ sess = NoSess

\* all three clients ran and returned
C5_Witness ==
    /\ pc = "returned"
    /\ calls = <<"facebook", "instagram", "youtube">>
    /\ order = <<"facebook", "instagram", "youtube">>

----------------------------------------------------------------------------

\* the response is a session-init answer (2xx, parseable) that lacks one of
\* the two fields a and b
InitLacksField(r) == Ok(r) /\ r.json /\ (~Truthy(r.a) \/ ~Truthy(r.b))

\* C6: a Facebook start response without video_id or upload_url, an
\* Instagram container response without uri or id, and a terminal YouTube
\* response without id each give that platform a Failure result; upload_all
\* does not raise, and after such a response no transfer, finish, publish,
\* status or permalink request is sent in that attempt.
C6_MissingInitFieldIsFailure ==
    /\ InitLacksField(got["fb_start"]) =>
            /\ Has("facebook") /\ IsFailure(results["facebook"])
            /\ pc \notin {"fb_transfer", "fb_finish", "raised"}
            /\ Count("fb_transfer") = 0 /\ Count("fb_finish") = 0
    /\ InitLacksField(got["ig_create"]) =>
            /\ Has("instagram") /\ IsFailure(results["instagram"])
            /\ pc \notin {"ig_transfer", "ig_publish", "ig_poll",
                          "ig_permalink", "raised"}
            /\ \A op \in {"ig_transfer", "ig_publish", "ig_poll",
                          "ig_permalink"} : Count(op) = 0
    /\ (got["yt_chunk"].b = "done" /\ got["yt_chunk"].a = None) =>
            /\ Has("youtube") /\ IsFailure(results["youtube"])
            /\ pc = "returned"

\* the container response had an id and no uri: Instagram failed with the
\* discovery and the creation as the only requests of the attempt
C6_Witness ==
    /\ got["ig_create"] = Resp("2xx", TRUE, ContainerId, None)
    /\ Has("instagram") /\ IsFailure(results["instagram"])
    /\ Len(log) = 2
    /\ pc \in {"yt_load", "returned"}

----------------------------------------------------------------------------

\* the Facebook client has returned and nothing was requested since
FbDone == Has("facebook") /\ pc \in {"discover", "raised"}

\* the start response carried both video_id and upload_url
StartReturnedBoth ==
    LET r == got["fb_start"] IN Ok(r) /\ r.json /\ Truthy(r.a) /\ Truthy(r.b)

\* what a Facebook result carries: the id of the start response and the
\* public url for a Success, a reason for a Failure
FbResultWellFormed ==
    IF results["facebook"].success
    THEN /\ results["facebook"].video_id = got["fb_start"].a
         /\ results["facebook"].url =
                "https://www.facebook.com/reel/" \o got["fb_start"].a
    ELSE IsFailure(results["facebook"])

\* C7 as stated: the Facebook result is a Success exactly when start
\* returned both fields, the transfer returned 2xx and the finish returned
\* 2xx; a Success carries the video_id of start and the reel url of it,
\* every other result is a Failure with a reason.
C7_SuccessIffThreePhases2xx ==
    FbDone =>
        /\ results["facebook"].success <=>
                /\ StartReturnedBoth
                /\ Ok(got["fb_transfer"])
                /\ Ok(got["fb_finish"])
        /\ FbResultWellFormed

\* C7, amended: the Facebook result is a Success exactly when start returned
\* both fields, the transfer returned 2xx and the finish returned 2xx with a
\* body that parses as JSON; a Success carries the video_id of start and
\* url = "https://www.facebook.com/reel/" + video_id, every other result
\* (a finish answered 2xx with an unparseable body included) is a Failure
\* with a reason.
C7_SuccessIffThreePhasesParsed ==
    FbDone =>
        /\ results["facebook"].success <=>
                /\ StartReturnedBoth
                /\ Ok(got["fb_transfer"])
                /\ Ok(got["fb_finish"]) /\ got["fb_finish"].json
        /\ FbResultWellFormed

\* all three phases answered 2xx with parseable bodies: Success for "456"
C7_Witness ==
    /\ FbDone
    /\ got["fb_start"] = Resp("2xx", TRUE, "456", UploadUrl)
    /\ Ok(got["fb_transfer"])
    /\ Ok(got["fb_finish"]) /\ got["fb_finish"].json
    /\ results["facebook"].success
    /\ results["facebook"].url = "https://www.facebook.com/reel/456"

----------------------------------------------------------------------------

\* the Facebook client is running or has just returned
FbWindow ==
    pc \in {"fb_start", "fb_transfer", "fb_finish", "discover", "raised"}

\* q is an initial part of r
IsPrefix(q, r) == Len(q) <= Len(r) /\ \A i \in 1..Len(q) : q[i] = r[i]

\* C8: the requests of a Facebook attempt are an initial part of start,
\* transfer, finish, each sent at most once; the transfer is sent only after
\* a start that returned both fields and goes to the upload_url of it, the
\* finish only after a 2xx transfer and for the video_id of start; a
\* transfer answered by a non-2xx status or an exception ends the attempt
\* as a Failure with no finish and no second transfer.
C8_PhasesInOrderOnce ==
    FbWindow =>
        /\ IsPrefix([i \in 1..Len(log) |-> log[i].op],
                    <<"fb_start", "fb_transfer", "fb_finish">>)
        /\ Len(log) >= 2 =>
                /\ StartReturnedBoth
                /\ log[2].arg = got["fb_start"].b
        /\ Len(log) >= 3 =>
                /\ Ok(got["fb_transfer"])
                /\ log[3].arg = got["fb_start"].a
        /\ (got["fb_transfer"] # NoResp /\ ~Ok(got["fb_transfer"])) =>
                /\ pc = "discover"
                /\ Has("facebook") /\ IsFailure(results["facebook"])
                /\ Len(log) = 2

\* the transfer was answered 500: Failure after two requests, no finish
C8_Witness ==
    /\ pc = "discover"
    /\ got["fb_transfer"].status = "5xx"
    /\ Len(log) = 2
    /\ Count("fb_finish") = 0
    /\ IsFailure(results["facebook"])

----------------------------------------------------------------------------

\* the Instagram client has returned and no later client has started
IgDone == Has("instagram") /\ got["ig_create"] # NoResp

\* media_publish was answered 2xx with a parseable body
Published == Ok(got["ig_publish"]) /\ got["ig_publish"].json

\* the last status query was answered with a body that parses
StatusReported == got["ig_poll"].status # "raise" /\ got["ig_poll"].json

\* C9: once media_publish has succeeded, the Instagram result is a Success
\* carrying the id of the publish response whatever status the status
\* queries reported: FINISHED, ERROR on any of the polls, or neither of them
\* on all MaxPolls polls.
C9_PollStatusDoesNotGate ==
    /\ Count("ig_poll") <= MaxPolls
    /\ (IgDone /\ Published /\ StatusReported) =>
            /\ IsSuccess(results["instagram"])
            /\ results["instagram"].id = got["ig_publish"].a
            /\ got["ig_poll"].a \notin {"FINISHED", "ERROR"} =>
                    Count("ig_poll") = MaxPolls

\* the third poll reported ERROR and the result is a Success
C9_Witness ==
    /\ IgDone /\ Published
    /\ Count("ig_poll") = 3
    /\ got["ig_poll"].a = "ERROR"
    /\ IsSuccess(results["instagram"])

----------------------------------------------------------------------------

\* C10: after a successful media_publish, a status query that raises (a
\* network error, a timeout) or whose body does not parse leaves the
\* Instagram result a Success.
C10_FailedStatusQueryDoesNotGate ==
    (IgDone /\ Published /\ ~StatusReported) =>
        IsSuccess(results["instagram"])

----------------------------------------------------------------------------

\* the permalink lookup was answered 2xx with a body holding a permalink
PermalinkReturned ==
    LET r == got["ig_permalink"] IN Ok(r) /\ r.json /\ Truthy(r.a)

\* C11: whatever the permalink lookup ends in, the Instagram result is a
\* Success; its url is the permalink when the lookup returned one, and
\* "https://www.instagram.com/reel/<media_id>/" built from the id of the
\* publish response when the lookup raised, was answered non-2xx, had an
\* unparseable body or held no permalink.
C11_PermalinkNeverFails ==
    (IgDone /\ got["ig_permalink"] # NoResp) =>
        /\ IsSuccess(results["instagram"])
        /\ results["instagram"].url =
                IF PermalinkReturned THEN got["ig_permalink"].a
                ELSE "https://www.instagram.com/reel/"
                        \o PyStr(got["ig_publish"].a) \o "/"

\* the lookup raised: Success with the url constructed from media id m1
C11_Witness ==
    /\ IgDone
    /\ got["ig_permalink"].status = "raise"
    /\ IsSuccess(results["instagram"])
    /\ results["instagram"].url = "https://www.instagram.com/reel/m1/"

----------------------------------------------------------------------------

\* C12: when _retry_upload returns, the upload function was called k times
\* with 1 <= k <= 3, every call before the k-th returned a Failure, the
\* k-th returned a Success or k = 3, and the value returned is what the
\* k-th call returned: the first Success, or the last Failure of three.
C12_AttemptCount ==
    /\ Len(attempts) <= 3
    /\ \A i \in 1..Len(attempts) - 1 : ~attempts[i].success
    /\ rpc = "returned" =>
            /\ Len(attempts) >= 1
            /\ result = attempts[Len(attempts)]
            /\ result.success \/ Len(attempts) = 3

\* two Failures, then a Success: three calls, the Success returned
C12_Witness ==
    /\ rpc = "returned"
    /\ Len(attempts) = 3
    /\ ~attempts[1].success /\ ~attempts[2].success
    /\ result.success

----------------------------------------------------------------------------

\* C13: the waits of _retry_upload are an initial part of 5, 10: the i-th
\* wait follows the i-th call, which failed, and lasts 5 * 2^(i-1) seconds;
\* there is no wait after the third call or after a Success, so that a
\* returned call that made k calls has waited k - 1 times (5 and 10 for a
\* function that failed three times).
C13_BackoffDelays ==
    /\ IsPrefix(sleeps, <<5, 10>>)
    /\ \A i \in 1..Len(sleeps) :
            /\ i <= Len(attempts)
            /\ ~attempts[i].success
            /\ sleeps[i] = 5 * (2 ^ (i - 1))
    /\ rpc = "returned" => Len(sleeps) = Len(attempts) - 1

\* three Failures: waits of 5 and 10 and the last Failure returned
C13_Witness ==
    /\ rpc = "returned"
    /\ Len(attempts) = 3
    /\ ~result.success
    /\ sleeps = <<5, 10>>

----------------------------------------------------------------------------

\* C14: an attempt that failed with a rejected token or a malformed request
\* is the last one: the upload function is not called again and that
\* Failure is returned after a single call.
C14_PermanentErrorNotRetried ==
    \A i \in 1..Len(attempts) :
        (~attempts[i].success /\ attempts[i].error \in PermanentErrors) =>
            /\ Len(attempts) = i
            /\ rpc = "returned"
            /\ result = attempts[i]

----------------------------------------------------------------------------

\* number of invocations of the client of platform p
Invocations(p) == Cardinality({i \in 1..Len(calls) : calls[i] = p})

\* a step of the running or last client attempt of p ended in a network
\* error or a 5xx status
RetryableFailure(p) ==
    \E op \in GatingOps(p) : got[op].status \in {"raise", "5xx"}

\* C15: a platform whose recorded result is the Failure of a network error
\* or of a 5xx status was attempted three times by upload_all before the
\* Failure was recorded, and results holds one entry for it.
C15_RetriedBeforeFailureRecorded ==
    \A p \in Platforms :
        (Has(p) /\ ~results[p].success /\ RetryableFailure(p)) =>
            /\ Invocations(p) = max_attempts
            /\ writes[p] = 1

----------------------------------------------------------------------------

----------------------------------------------------------------------------

\* the text t occurs in the text s
Contains(s, t) ==
    \E i \in 1..(Len(s) - Len(t) + 1) : SubSeq(s, i, i + Len(t) - 1) = t

\* C17: the error reason of a platform's Failure never contains the access
\* token verbatim (a raw error text that holds the token is redacted before
\* it is placed in the result).
C17_ErrorReasonRedacted ==
    \A p \in Platforms :
        (Has(p) /\ ~results[p].success) =>
            ~Contains(results[p].error, AccessToken)

----------------------------------------------------------------------------

\* the positions of the requests op in the log
Positions(op) == {i \in 1..Len(log) : log[i].op = op}

\* the credentials a refresh or an interactive flow gives
ChangedCredentials == {"refreshed", "fresh"}

\* C18: in a YouTube attempt in which the credential was refreshed or newly
\* obtained, every upload request comes after the write of that credential
\* to the credential file, and the file holds it when the upload request is
\* issued; the upload is not built before the file is written.
C18_SavedBeforeUpload ==
    /\ \A i \in Positions("yt_chunk") :
        \A j \in Positions("yt_refresh") \cup Positions("yt_flow") :
            /\ j < i
            /\ \E k \in Positions("store_write") :
                    j < k /\ k < i /\ log[k].arg \in ChangedCredentials
            /\ store \in ChangedCredentials
    /\ (pc \in {"yt_build", "yt_chunk"}
            /\ sess.creds \in ChangedCredentials) => store = sess.creds

\* a refreshed credential was written and the upload request was sent
C18_Witness ==
    /\ Positions("yt_refresh") = {1}
    /\ Positions("store_write") = {3}
    /\ Positions("yt_chunk") = {4}
    /\ store = "refreshed"

----------------------------------------------------------------------------

\* the YouTube client is past the loading of the stored credential
YtLoaded ==
    pc \in {"yt_refresh", "yt_flow", "yt_save", "yt_dump", "yt_build",
            "yt_chunk"}

\* the first request of the attempt is op
StartsWith(op) == Len(log) >= 1 /\ log[1].op = op

\* C19: a stored credential that is expired and has a refresh token is
\* refreshed, and an attempt that refreshes never runs the interactive
\* flow; without a stored credential the interactive flow is run; a refresh
\* is only ever made of an expired credential with a refresh token; the
\* upload is built and sent only with a credential that was loaded valid,
\* refreshed or obtained by the flow.
C19_CredentialLifecycle ==
    /\ (YtLoaded /\ store = "expired_rt") =>
            pc = "yt_refresh" \/ StartsWith("yt_refresh")
    /\ (YtLoaded /\ store = "absent") =>
            pc = "yt_flow" \/ StartsWith("yt_flow")
    /\ pc = "yt_refresh" => sess.creds = "expired_rt"
    /\ pc = "yt_flow" => sess.creds \in {None, "expired_nort"}
    /\ Positions("yt_refresh") # {} =>
            /\ Positions("yt_flow") = {}
            /\ log[1] = Event("yt_refresh", "expired_rt", None)
    /\ pc \in {"yt_build", "yt_chunk"} =>
            /\ sess.creds \in {"valid"} \cup ChangedCredentials
            /\ sess.creds = "refreshed" <=> StartsWith("yt_refresh")
            /\ sess.creds = "fresh" <=> StartsWith("yt_flow")
    /\ Positions("yt_chunk") # {} =>
            \/ store = "valid" /\ log[1].op = "yt_chunk"
            \/ store = "refreshed" /\ StartsWith("yt_refresh")
            \/ store = "fresh" /\ StartsWith("yt_flow")

\* no stored credential: the flow ran, its credential was saved and the
\* upload request was sent with it
C19_Witness ==
    /\ pc = "yt_chunk"
    /\ StartsWith("yt_flow")
    /\ log[1] = Event("yt_flow", "None", None)
    /\ Positions("yt_refresh") = {}
    /\ sess.creds = "fresh"
    /\ Positions("yt_chunk") # {}

----------------------------------------------------------------------------

\* FULLWIDTH LESS-THAN SIGN and FULLWIDTH GREATER-THAN SIGN
FullWidthLt == "\\uFF1C"
FullWidthGt == "\\uFF1E"

\* s with every '<' and '>' replaced by its full-width equivalent and
\* every other character kept in its place
RECURSIVE Widened(_)
Widened(s) ==
    IF Len(s) = 0 THEN ""
    ELSE LET c == SubSeq(s, 1, 1) IN
         (IF c = "<" THEN FullWidthLt ELSE IF c = ">" THEN FullWidthGt ELSE c)
            \o Widened(SubSeq(s, 2, Len(s)))

\* C20: the description every YouTube upload request carries has no '<' and
\* no '>': it is the shared description with each '<' and '>' replaced by
\* its full-width equivalent, the other characters in order, followed by
\* one "#Shorts" marker.
C20_DescriptionFullWidth ==
    \A i \in Positions("yt_chunk") :
        /\ ~Contains(log[i].desc, "<")
        /\ ~Contains(log[i].desc, ">")
        /\ log[i].desc = Widened(fullDesc) \o "\n\n#Shorts"

----------------------------------------------------------------------------

\* number of places of the text s where the text t begins
Occurrences(s, t) ==
    Cardinality({i \in 1..(Len(s) - Len(t) + 1) :
                    SubSeq(s, i, i + Len(t) - 1) = t})

\* C21: once upload_all has built the shared description it is the
\* description argument followed by the CTA and the licence text, each
\* once, and it never changes; the descriptions the Facebook finish and the
\* Instagram container creation carry are that shared text, without the
\* YouTube marker; the description a YouTube request carries is a copy with
\* the marker at its end, and the shared text stays without it.
C21_SharedDescription ==
    /\ pc # "idle" =>
            /\ fullDesc = description \o CtaText \o MusicLicense
            /\ Occurrences(fullDesc, CtaText) = 1
            /\ Occurrences(fullDesc, MusicLicense) = 1
            /\ ~Contains(fullDesc, "#Shorts")
    /\ \A i \in 1..Len(log) :
            /\ log[i].op \in {"fb_finish", "ig_create"} =>
                    log[i].desc = description \o CtaText \o MusicLicense
            /\ log[i].op = "yt_chunk" =>
                    /\ Occurrences(log[i].desc, "#Shorts") = 1
                    /\ Occurrences(log[i].desc, "Subscribe!") = 1
                    /\ log[i].desc # fullDesc

\* the YouTube request went out with the marker, after Facebook and
\* Instagram had run, and the shared description is without it
C21_Witness ==
    /\ calls = <<"facebook", "instagram", "youtube">>
    /\ Positions("yt_chunk") # {}
    /\ fullDesc = "Solve <this>" \o CtaText \o MusicLicense

----------------------------------------------------------------------------

\* a required credential of an enabled platform is missing: the Facebook
\* token or page id, or the YouTube client secrets when no usable stored
\* credential exists
CredentialMissing ==
    \/ cfg.fbEnabled /\ ~cfg.fbKeys
    \/ cfg.ytEnabled /\ got["yt_flow"].status = "raise"

\* C22: a call in which a required credential of an enabled platform is
\* missing does not return a result map: it aborts, with no network request
\* of any platform sent; upload_all raises for no other reason.
C22_MissingCredentialAborts ==
    /\ pc = "returned" => ~CredentialMissing
    /\ pc = "raised" => CredentialMissing /\ sent = {}
    /\ CredentialMissing =>
            sent \cap (UNION {PlatformOps(p) : p \in {"facebook", "instagram"}}
                       \cup {"discover", "yt_chunk"}) = {}

----------------------------------------------------------------------------

\* the requests that open a session on a platform
SessionInits == {"fb_start", "ig_create", "yt_chunk"}

\* C23: with the video file missing no platform is attempted: no
\* session-init request (Facebook start, Instagram container creation,
\* YouTube insert) is ever sent.
C23_MissingVideoAttemptsNothing ==
    ~videoExists => sent \cap SessionInits = {}

----------------------------------------------------------------------------

\* C24: at every point of an attempt the credential file holds a complete
\* credential, the old one or the new one (or it is absent or was unreadable
\* from the start): it is never empty and never partially written.
C24_CredentialWriteAtomic ==
    store \in StoredCredentials \cup ChangedCredentials

----------------------------------------------------------------------------

\* C25: whatever verify_facebook_token returned, main() goes on to the
\* selection of the question; by then send_alert was called once when the
\* value is a number of days <= 5, and not at all when it is None or a
\* larger number, the sentinel 9999 included.
C25_AlertOnlyWhenExpiring ==
    /\ mpc # "failed"
    /\ mpc = "token_check" => alerts = <<>>
    /\ mpc = "select_question" =>
            /\ vpc = "returned"
            /\ Len(alerts) <= 1
            /\ Len(alerts) = 1 <=> (ret # RetNone /\ ret.days <= 5)
            /\ Len(alerts) = 1 => alerts[1].days = ret.days
            /\ ret \in {RetNone, RetDays(9999)} => alerts = <<>>

\* five days remain: the alert was sent and the pipeline went on
C25_Witness ==
    /\ mpc = "select_question"
    /\ ret = RetDays(5)
    /\ Len(alerts) = 1

----------------------------------------------------------------------------

\* str.find: the index, counted from 0, of the first place of s where t
\* begins, and -1 when there is none
Find(s, t) ==
    LET at == {i \in 1..(Len(s) - Len(t) + 1) :
                    SubSeq(s, i, i + Len(t) - 1) = t}
    IN IF at = {} THEN -1
       ELSE (CHOOSE i \in at : \A j \in at : i <= j) - 1

\* summed length of the first k items of hs and of the spaces between them
RECURSIVE JoinedLen(_, _)
JoinedLen(hs, k) ==
    IF k = 0 THEN 0
    ELSE JoinedLen(hs, k - 1) + Len(hs[k]) + (IF k > 1 THEN 1 ELSE 0)

\* C26: in the description of a validated question "Solution:" is found,
\* "Correct Answer:" is found and its first place is after that of
\* "Solution:", the explanation follows "Solution:", and the description
\* ends with the hashtags in their order, each at its place with exactly
\* one space between neighbours, after a blank line.
C26_AnswerAfterSolution ==
    qpc = "described" =>
        LET hs == question.hashtags
            n == Len(hs)
            start == Len(qdesc) - JoinedLen(hs, n)
        IN
        /\ Find(qdesc, "Solution:") # -1
        /\ Find(qdesc, "Correct Answer:") # -1
        /\ Find(qdesc, "Solution:") < Find(qdesc, "Correct Answer:")
        /\ Contains(qdesc, "Solution:\n" \o question.explanation \o "\n\n")
        /\ Find(qdesc, "Correct Answer: " \o question.answer \o " (")
                > Find(qdesc, "Solution:\n" \o question.explanation)
        /\ start >= 2
        /\ SubSeq(qdesc, start - 1, start) = "\n\n"
        /\ \A k \in 1..n :
            /\ SubSeq(qdesc, start + JoinedLen(hs, k) - Len(hs[k]) + 1,
                            start + JoinedLen(hs, k)) = hs[k]
            /\ k < n =>
                SubSeq(qdesc, start + JoinedLen(hs, k) + 1,
                             start + JoinedLen(hs, k) + 1) = " "

\* a question whose explanation quotes the answer label, with two hashtags
C26_Witness ==
    /\ qpc = "described"
    /\ question.explanation = "Correct Answer: B is wrong"
    /\ question.hashtags = <<"#math", "#quiz">>
    /\ Find(qdesc, "Solution:") = 11

----------------------------------------------------------------------------

\* the operations of the requests and waits of the current client, in order
IgRequestOps == [i \in 1..Len(log) |-> log[i].op]

\* C27: the requests of an Instagram attempt after the account discovery
\* are create, transfer, publish, then waits and status queries, then at
\* most one permalink lookup as the last request; the publish is the third
\* request, sent only after a 2xx transfer and before every status query,
\* and carries the container id that create returned; every status query
\* asks for that container id; the permalink lookup comes after at least
\* one status query and asks for the id that publish returned.
C27_InstagramStepsInOrder ==
    StartsWith("discover") =>
        /\ IsPrefix(SubSeq(IgRequestOps, 1, IF Len(log) < 4 THEN Len(log) ELSE 4),
                    <<"discover", "ig_create", "ig_transfer", "ig_publish">>)
        /\ Len(log) >= 4 =>
                /\ Ok(got["ig_transfer"])
                /\ got["ig_create"].a = ContainerId
                /\ log[4].arg = got["ig_create"].a
        /\ \A i \in 5..Len(log) :
                /\ log[i].op \in {"sleep", "ig_poll", "ig_permalink"}
                /\ log[i].op = "ig_poll" => log[i].arg = got["ig_create"].a
                /\ log[i].op = "ig_permalink" =>
                        /\ i = Len(log)
                        /\ Count("ig_poll") >= 1
                        /\ Ok(got["ig_publish"])
                        /\ log[i].arg = PyStr(got["ig_publish"].a)

\* create, transfer, publish, two status queries and the lookup of m1
C27_Witness ==
    /\ StartsWith("discover")
    /\ Len(log) = 9
    /\ Count("ig_poll") = 2
    /\ log[4] = Event("ig_publish", ContainerId, None)
    /\ got["ig_publish"].a = "m1"
    /\ log[9] = Event("ig_permalink", "m1", None)

----------------------------------------------------------------------------

\* C28: a step that issues a status query issues exactly one, right after
\* a wait of 5 seconds, as at most the 10th query of the attempt, and only
\* when no earlier status query of the attempt was answered FINISHED or
\* ERROR; so the poll ends after at most 10 queries.
C28_PollTerminates ==
    [][Count("ig_poll")' > Count("ig_poll") =>
            /\ Count("ig_poll")' = Count("ig_poll") + 1
            /\ Count("ig_poll")' <= MaxPolls
            /\ Len(log') = Len(log) + 2
            /\ log'[Len(log') - 1] = Event("sleep", PollDelay, None)
            /\ log'[Len(log')].op = "ig_poll"
            /\ got["ig_poll"].a \notin {"FINISHED", "ERROR"}]_vars

\* ten status queries were sent, none answered FINISHED or ERROR, and the
\* attempt went on to the permalink lookup
C28_Witness ==
    /\ Count("ig_poll") = MaxPolls
    /\ Count("sleep") = MaxPolls
    /\ got["ig_poll"].a = "IN_PROGRESS"
    /\ pc = "ig_permalink"

----------------------------------------------------------------------------

\* C29: when the operation is cancelled while the processing poll waits or
\* queries, the Instagram result is recorded and is a Success.
C29_CancelledPollStillSuccess ==
    pc = "cancelled" =>
        Has("instagram") /\ IsSuccess(results["instagram"])

----------------------------------------------------------------------------

\* the answer to a chunk request that leaves response None
NonTerminal(r) == Ok(r) /\ r.b = "progress"

\* C30: while the chunk loop runs, every chunk request so far was answered
\* without a terminal response, and after such an answer the loop is still
\* running and YouTube has no result; once YouTube has a result after a
\* chunk request, the last answer was not a non-terminal one and no further
\* chunk is requested; a terminal response with an id gives a Success with
\* video_id = that id and url = "https://youtube.com/shorts/" + id, and a
\* chunk request that raised gives a Failure.
C30_ChunkLoop ==
    LET r == got["yt_chunk"] IN
    /\ pc = "yt_chunk" =>
            /\ Count("yt_chunk") = sess.chunks
            /\ Count("yt_chunk") > 0 => NonTerminal(r)
    /\ (r # NoResp /\ NonTerminal(r)) =>
            pc = "yt_chunk" /\ ~Has("youtube")
    /\ (r # NoResp /\ ~NonTerminal(r)) =>
            /\ pc # "yt_chunk"
            /\ Has("youtube")
            /\ log[Len(log)].op = "yt_chunk"
            /\ (Ok(r) /\ r.a # None) =>
                    /\ IsSuccess(results["youtube"])
                    /\ results["youtube"].video_id = r.a
                    /\ results["youtube"].url
                            = "https://youtube.com/shorts/" \o r.a
            /\ ~Ok(r) => IsFailure(results["youtube"])

\* two chunk requests were answered with progress, the third with the id yt1
C30_Witness ==
    /\ pc = "returned"
    /\ Count("yt_chunk") = 3
    /\ got["yt_chunk"].a = "yt1"
    /\ results["youtube"].url = "https://youtube.com/shorts/yt1"

----------------------------------------------------------------------------

----------------------------------------------------------------------------

\* the places of nlog that hold a post, and those that hold a log record
Posts == {i \in 1..Len(nlog) : nlog[i].op = "post"}
Logged == {i \in 1..Len(nlog) : nlog[i].op \in {"warning", "error"}}

\* C32: a send posts at most 3 times; a failed post is followed by one log
\* record and, unless it was the third post, by a wait of 2 seconds and
\* then the next post; nothing follows a successful post and the send
\* returns True exactly then; it returns False after the third failed
\* post with no wait after it; no logged error text holds the bot token.
C32_NotifierRetries ==
    /\ Cardinality(Posts) <= max_retries
    /\ \A i \in 1..Len(nlog) :
        /\ nlog[i].op = "post" =>
                /\ i = 1 \/ nlog[i - 1] = NEvent("sleep", RetryWait, "")
                /\ nlog[i].text = "2xx" => i = Len(nlog) /\ nret = TRUE
                /\ nlog[i].text # "2xx" =>
                        /\ i < Len(nlog)
                        /\ nlog[i + 1].op \in {"warning", "error"}
        /\ nlog[i].op = "warning" =>
                /\ i < Len(nlog)
                /\ nlog[i + 1] = NEvent("sleep", RetryWait, "")
                /\ Cardinality({j \in Posts : j < i}) < max_retries
        /\ nlog[i].op = "error" =>
                /\ i = Len(nlog)
                /\ Cardinality(Posts) = max_retries
                /\ nret = FALSE
        /\ nlog[i].op = "sleep" => nlog[i - 1].op = "warning"
        /\ i \in Logged => ~Contains(nlog[i].text, BotToken)
    /\ (npc = "returned" /\ nenabled) =>
            /\ nret = TRUE <=> nlog[Len(nlog)].text = "2xx"
            /\ nret = FALSE <=> nlog[Len(nlog)].op = "error"
    /\ (npc = "post" /\ nlog # <<>>) => nlog[Len(nlog)].op = "sleep"

\* three failed posts, two waits, False returned; the error of the last
\* post held the url and was logged with the token replaced
C32_Witness ==
    /\ npc = "returned"
    /\ nret = FALSE
    /\ Cardinality(Posts) = 3
    /\ Cardinality({i \in 1..Len(nlog) : nlog[i].op = "sleep"}) = 2
    /\ Contains(PostErrorText(nlog[7].text), BotToken)
    /\ Contains(nlog[8].text, "/bot[REDACTED]/sendMessage")

----------------------------------------------------------------------------

\* C33: what get_next_question returned is the first place of the bank
\* whose id is not in the used set, a question whose id mark_as_used has
\* not added since the last reset, and None exactly when the id of every
\* question is in the used set.
C33_FirstUnusedQuestion ==
    qret.call = "get_next_question" =>
        LET i == qret.index IN
        /\ i = 0 <=> \A j \in 1..Len(questions) : questions[j].id \in used_ids
        /\ i # 0 =>
            /\ i \in 1..Len(questions)
            /\ questions[i].id \notin used_ids
            /\ questions[i].id \notin marked
            /\ \A j \in 1..(i - 1) : questions[j].id \in used_ids

\* question 1 was marked used and the second question of the bank returned
C33_Witness ==
    /\ qret.call = "get_next_question"
    /\ questions = <<Q(1, "easy"), Q(2, "hard")>>
    /\ marked = {1}
    /\ qret.index = 2

----------------------------------------------------------------------------

\* C34: a mark_as_used call that returns leaves its id in the used set and
\* in the set that loading the log gives; a mark_as_used call that raises
\* leaves the used set as it was.
C34_LogAndSetInStep ==
    [][qret'.call = "mark_as_used" =>
            IF qret'.raised
            THEN used_ids' = used_ids
            ELSE /\ qret'.id \in used_ids'
                 /\ qret'.id \in LoadUsedIds(used_log')]_vars

----------------------------------------------------------------------------

\* C39: the remaining of get_stats is the number of questions whose id is
\* not in the used set, which is the sum of remaining_by_difficulty; it is
\* between 0 and total, and used + remaining = total.
C39_StatsRemaining ==
    qret.call = "get_stats" =>
        LET st == qret.stats IN
        /\ st.remaining = Cardinality(Unused(questions, used_ids))
        /\ st.remaining = st.remaining_sum
        /\ 0 <= st.remaining
        /\ st.remaining <= st.total
        /\ st.used + st.remaining = st.total

----------------------------------------------------------------------------

\* upload_all has gone past the discovery of lines 64-68
PastDiscovery == Has("facebook") /\ pc # "discover"

\* C35: with Facebook enabled, once upload_all is past the discovery with a
\* Facebook result that is a Failure, the discovery request was sent and,
\* when it found a linked account, the Instagram client was invoked.
C35_FailureDoesNotStopCrosspost ==
    (cfg.fbEnabled /\ PastDiscovery /\ IsFailure(results["facebook"])) =>
        /\ "discover" \in sent
        /\ Truthy(ig_user_id) => "instagram" \in Range(calls)

\* C35, amended: with Facebook enabled and access_token and page_id in its
\* configuration, once upload_all is past the discovery the discovery
\* request was sent and, when it found a linked account, the Instagram
\* client was invoked, whether the Facebook result is a Success or a
\* Failure; without those keys upload_all raises after the Facebook
\* Failure with no discovery request sent.
C35_CrosspostIndependentOfFacebook ==
    /\ (cfg.fbEnabled /\ cfg.fbKeys /\ PastDiscovery) =>
            /\ "discover" \in sent
            /\ Truthy(ig_user_id) => "instagram" \in Range(calls)
    /\ (cfg.fbEnabled /\ ~cfg.fbKeys /\ PastDiscovery) =>
            /\ pc = "raised"
            /\ IsFailure(results["facebook"])
            /\ sent = {}

\* the Facebook start request failed and the Instagram upload succeeded
C35_Witness ==
    /\ pc = "returned"
    /\ "fb_start" \in failed
    /\ IsFailure(results["facebook"])
    /\ "discover" \in sent
    /\ Has("instagram") /\ IsSuccess(results["instagram"])

----------------------------------------------------------------------------

\* the discovery request raised, or its body is not JSON, or holds an
\* instagram_business_account without an id
DiscoveryFailed(r) ==
    \/ r.status = "raise"
    \/ ~r.json
    \/ r.b = "present" /\ ~Truthy(r.a)

\* the page has no instagram_business_account
NoLinkedAccount(r) == r.status # "raise" /\ r.json /\ r.b = None

\* C36: after a discovery request that failed or returned a malformed body
\* upload_all is where it is after a discovery that found no linked
\* account: it has not raised, holds no account id, goes on to the YouTube
\* client when YouTube is enabled and returns otherwise; and in a call
\* whose discovery gave no account id, upload_all never raises, the
\* Instagram client is not invoked and sends nothing, results has no
\* instagram key, and the YouTube client is invoked when YouTube is enabled.
C36_FailedDiscoveryIsNoAccount ==
    LET r == got["discover"] IN
    /\ (r # NoResp /\ (DiscoveryFailed(r) \/ NoLinkedAccount(r))) =>
            /\ ~Truthy(ig_user_id)
            /\ pc = IF cfg.ytEnabled THEN "yt_load" ELSE "returned"
    /\ ("discover" \in sent /\ ~Truthy(ig_user_id)) =>
            /\ pc # "raised"
            /\ "instagram" \notin Range(calls)
            /\ PlatformOps("instagram") \cap sent = {}
            /\ ~Has("instagram")
            /\ cfg.ytEnabled => "youtube" \in Range(calls)
            /\ pc = "returned" =>
                    DOMAIN results = {"facebook"}
                        \cup (IF cfg.ytEnabled THEN {"youtube"} ELSE {})

\* the discovery request raised and upload_all went on to YouTube
C36_Witness ==
    /\ got["discover"] = Resp("raise", FALSE, None, None)
    /\ pc = "yt_load"
    /\ calls = <<"facebook", "youtube">>
    /\ ~Has("instagram")

----------------------------------------------------------------------------

\* C37: an Instagram result that is a Success holds the media id that the
\* publish response returned, which is not missing, and its url is not the
\* fallback built from a missing id.
C37_SuccessCarriesMediaId ==
    (Has("instagram") /\ IsSuccess(results["instagram"])) =>
        /\ Truthy(results["instagram"].id)
        /\ results["instagram"].id \in MediaIds
        /\ results["instagram"].url # "https://www.instagram.com/reel/None/"

----------------------------------------------------------------------------

\* the places of the log where the credential file is opened or written
StoreWrites == Positions("store_open") \cup Positions("store_write")

\* C38: while the stored credential is the valid one, no refresh, no
\* interactive flow and no write of the credential file has occurred, and
\* no step changes it; a step changes the credential file only in an
\* attempt that began with a refresh or a flow that succeeded, and writes
\* the credential obtained there; after a refresh that raised, the YouTube
\* result is a Failure and the credential file still holds the expired
\* credential.
C38_StoreChangesOnlyWithNewCredential ==
    /\ [](store = "valid" =>
            /\ {"yt_refresh", "yt_flow"} \cap sent = {}
            /\ StoreWrites = {})
    /\ [][store' # store =>
            /\ store # "valid"
            /\ sess.creds \in ChangedCredentials
            /\ log[1].op \in {"yt_refresh", "yt_flow"}
            /\ Ok(got[log[1].op])
            /\ store' \in {"empty", "partial", sess.creds}]_vars
    /\ []((got["yt_refresh"] # NoResp /\ ~Ok(got["yt_refresh"])) =>
            /\ Has("youtube")
            /\ IsFailure(results["youtube"])
            /\ store = "expired_rt"
            /\ StoreWrites = {}
            /\ "yt_flow" \notin sent)

\* the refresh raised: a Failure, the file still holds the expired credential
C38_Witness ==
    /\ got["yt_refresh"] = Resp("raise", FALSE, None, None)
    /\ IsFailure(results["youtube"])
    /\ store = "expired_rt"
    /\ pc = "returned"

====
